---- MODULE Spec2Model ----
(***************************************************************************)
(* Lythra module core: event bus, module registry, module atoms registry,  *)
(* module sandbox and module provider, modelled as one state machine.      *)
(*                                                                         *)
(* Each subsystem has its own specification (SpecBus, SpecLog, ...) that   *)
(* exercises that subsystem's operations while the other subsystems stay   *)
(* in their initial state.                                                 *)
(***************************************************************************)
EXTENDS Integers, Sequences, FiniteSets, TLC

(***************************************************************************)
(* Bounds of the model                                                     *)
(***************************************************************************)
\* on() calls made in one behaviour of the bus specification
MaxSubs == 3
\* emit() calls made in one behaviour of the bus specification
MaxBusEmits == 1
\* emit() calls made beyond the log capacity in the log specification
MaxOverflow == 2
\* module instances held by the registry at one time
MaxInstances == 1
\* atoms bundles created in one behaviour
MaxBundles == 2
\* sandboxes created in one behaviour of the storage specification
MaxStorageSandboxes == 2
\* sandboxes created in one behaviour of the sandbox specification
MaxSandboxes == 1
\* network requests issued in one behaviour of the sandbox specification
MaxRequests == 1
\* audio elements created in one behaviour of the sandbox specification
MaxAudios == 1
\* instances held at one time in the creation specification
MaxCreated == 2
\* milliseconds that pass in one behaviour of the creation specification
MaxClock == 1
\* audio elements created in one behaviour of the audio specification
MaxSounds == 3
\* ModuleProvider components mounted in one behaviour
MaxMounts == 1
\* prompts, notifications and service worker messages made in one behaviour
\* of the notifications specification
MaxNotifications == 2
MaxNanoIds == 4
MaxGridMounts == 1
MaxExports == 1
MaxDashboards == 2

(***************************************************************************)
(* Program constants                                                       *)
(***************************************************************************)
\* EventBus.maxLogSize
maxLogSize == 100

\* ModuleEventType, in the order onAll() subscribes to them
EventTypes ==
  << "module:initialized", "module:settings-changed", "module:state-changed",
     "module:error", "dashboard:layout-changed", "dashboard:edit-mode-changed" >>

EventTypeSet == { EventTypes[i] : i \in 1..Len(EventTypes) }

\* undefined where an object is expected (a missing map entry, no payload)
Undefined == [ undefined |-> TRUE ]
\* undefined where a string is expected (strings are sequences of characters)
NoString == << "undefined" >>

(***************************************************************************)
(* Inputs                                                                  *)
(***************************************************************************)
\* event types the clients of the bus specification subscribe to and emit
BusTypes == { "module:initialized", "module:state-changed" }
\* callback functions (distinct function objects) clients pass to on()
Callbacks == { "cbA", "cbB" }

(***************************************************************************)
(* Sequence helpers                                                        *)
(***************************************************************************)
Range(s) == { s[i] : i \in 1..Len(s) }

RECURSIVE SeqRemove(_, _)
\* s without the elements equal to x, order kept
SeqRemove(s, x) ==
  IF s = << >> THEN << >>
  ELSE IF Head(s) = x THEN SeqRemove(Tail(s), x)
  ELSE << Head(s) >> \o SeqRemove(Tail(s), x)

\* the last n elements of s (all of s when it has fewer)
LastN(s, n) ==
  IF Len(s) <= n THEN s ELSE SubSeq(s, Len(s) - n + 1, Len(s))

\* a call count, kept exact up to 2 ("a second or later call")
Saturate(n) == IF n > 2 THEN 2 ELSE n

NoDuplicates(s) == \A i, j \in 1..Len(s) : s[i] = s[j] => i = j

VARIABLES
  events,      \* EventBus.events: Map<ModuleEventType, Set<EventCallback>>;
               \* a JS Set iterates in insertion order, so each entry is a
               \* duplicate-free sequence; an absent key is outside DOMAIN
  eventLog,    \* EventBus.eventLog
  handles,     \* the unsubscribe closures returned by on(), in call order
  history,     \* every event emitted since the last clearEventLog()
  emitCount,   \* number of emit() calls made so far
  modules,     \* ModuleRegistry.modules: Map<string, ModuleDefinition>
  instances,   \* ModuleRegistry.instances: Map<string, ModuleConfig>
  atomCreators,\* ModuleAtomsRegistry.atomCreators
  moduleAtoms, \* ModuleAtomsRegistry.moduleAtoms: Map<string, bundle>
  nextBundle,  \* identity of the next object an atom creator returns
  held,        \* per (type, id): the bundle getModuleAtoms() returned last,
               \* and whether no removal was asked for the pair since
  clock,       \* Date.now()
  idb,         \* the idb-keyval store all sandboxes share: key -> value
  sandboxes,   \* the sandboxes createModuleSandbox() returned, in call order
  audios,      \* every HTMLAudioElement created so far
  requests,    \* the requests handed to the platform's fetch
  notified,    \* the platform's notification state: the permission the user
               \* gave, and the prompts, notifications and service worker
               \* messages made so far
  providers,   \* the ModuleProvider components rendered so far
  store,       \* useDashboardStore: dashboards, currentDashboardId, lastError
  nanoids,     \* number of ids nanoid() has generated
  exports,     \* the Dashboard objects exportDashboard() has returned
  last         \* the last operation: its name, arguments and outcome

busVars == << events, eventLog, handles, history, emitCount >>
regVars == << modules, instances, atomCreators, moduleAtoms, nextBundle,
              held, clock >>
sbxVars == << idb, sandboxes, audios, requests, notified, providers >>
dashVars == << store, nanoids, exports >>
vars == << busVars, regVars, sbxVars, dashVars, last >>

(***************************************************************************)
(* Maps and strings                                                        *)
(***************************************************************************)
\* Map.set, Map.delete, Map.get, Map.has on a function with a finite domain
MapSet(m, k, v) == [ x \in DOMAIN m \cup { k } |-> IF x = k THEN v ELSE m[x] ]
MapDelete(m, k) == [ x \in DOMAIN m \ { k } |-> m[x] ]
MapHas(m, k) == k \in DOMAIN m
MapGet(m, k) == IF k \in DOMAIN m THEN m[k] ELSE Undefined

\* strings are sequences of characters; template literals concatenate
DigitChars == << "0", "1", "2", "3", "4", "5", "6", "7", "8", "9" >>

RECURSIVE ToDecimal(_)
\* `${n}` for a number n >= 0
ToDecimal(n) ==
  IF n < 10 THEN << DigitChars[n + 1] >>
  ELSE ToDecimal(n \div 10) \o << DigitChars[(n % 10) + 1] >>

\* new Date().toISOString(): one string per instant, later instants sort later
IsoString(now) == << "T" >> \o ToDecimal(now)

\* a string is truthy unless it is empty
Truthy(str) == str # << >>

(***************************************************************************)
(* Event bus (src/src/lib/supabase/client.ts)                              *)
(***************************************************************************)
\* Set.add on an insertion-ordered set
SetAdd(s, x) == IF x \in Range(s) THEN s ELSE Append(s, x)

\* this.events.get(eventType), the empty sequence when the key is absent
SubscribersOf(ev, eventType) ==
  IF eventType \in DOMAIN ev THEN ev[eventType] ELSE << >>

\* EventBus.on: the map after on(eventType, callback)
BusOn(ev, eventType, callback) ==
  [ t \in DOMAIN ev \cup { eventType } |->
      IF t = eventType THEN SetAdd(SubscribersOf(ev, eventType), callback)
      ELSE ev[t] ]

\* the closure on() returns, called: removes the callback when the set of the
\* type has it, and prunes the map entry when the set becomes empty
BusUnsubscribe(ev, eventType, callback) ==
  IF callback \in Range(SubscribersOf(ev, eventType))
  THEN LET rest == SeqRemove(ev[eventType], callback)
       IN  IF rest = << >>
           THEN [ t \in DOMAIN ev \ { eventType } |-> ev[t] ]
           ELSE [ ev EXCEPT ![eventType] = rest ]
  ELSE ev

\* logEvent truncating at the wrong end: slice(0, maxLogSize)
LogEventKeepOldest(log, event) ==
  LET pushed == Append(log, event)
  IN  IF Len(pushed) > maxLogSize
      THEN SubSeq(pushed, 1, maxLogSize)
      ELSE pushed

\* EventBus.logEvent: push, then keep the last maxLogSize entries
LogEvent(log, event) ==
  LET pushed == Append(log, event)
  IN  IF Len(pushed) > maxLogSize
      THEN SubSeq(pushed, Len(pushed) - maxLogSize + 1, Len(pushed))
      ELSE pushed

\* the loop without the try/catch: the first throwing callback ends it and
\* its exception reaches the caller of emit()
DeliverAbortOnThrow(cbs, i, throwers, acc) ==
  IF \E k \in i..Len(cbs) : cbs[k] \in throwers
  THEN LET k == CHOOSE k \in i..Len(cbs) :
                  /\ cbs[k] \in throwers
                  /\ \A j \in i..(k - 1) : cbs[j] \notin throwers
       IN  [ calls   |-> acc.calls \o SubSeq(cbs, i, k),
             caught  |-> acc.caught,
             escaped |-> TRUE ]
  ELSE [ calls |-> acc.calls \o SubSeq(cbs, i, Len(cbs)),
         caught |-> acc.caught, escaped |-> acc.escaped ]

RECURSIVE DeliverFrom(_, _, _, _)
\* callbacks.forEach with the try/catch around each call: the callbacks from
\* position i on are called in order; one that throws (it is in throwers) is
\* caught and the loop goes on. The result is the sequence of calls made, the
\* callbacks whose exception was caught, and whether an exception left emit().
DeliverFrom(cbs, i, throwers, acc) ==
  IF i > Len(cbs) THEN acc
  ELSE DeliverFrom(cbs, i + 1, throwers,
         [ calls   |-> Append(acc.calls, cbs[i]),
           caught  |-> IF cbs[i] \in throwers
                       THEN acc.caught \cup { cbs[i] } ELSE acc.caught,
           escaped |-> acc.escaped ])

\* the notification part of EventBus.emit
Deliver(cbs, throwers) ==
  DeliverFrom(cbs, 1, throwers,
              [ calls |-> << >>, caught |-> {}, escaped |-> FALSE ])

\* the ModuleEvent emit() constructs
MakeEvent(eventType, payload, moduleId, moduleType, now) ==
  [ type |-> eventType, moduleId |-> moduleId, moduleType |-> moduleType,
    payload |-> payload, timestamp |-> now ]

(***************************************************************************)
(* Operations of the event bus                                             *)
(***************************************************************************)
Init ==
  /\ events = << >>
  /\ eventLog = << >>
  /\ handles = << >>
  /\ history = << >>
  /\ emitCount = 0
  /\ modules = << >>
  /\ instances = << >>
  /\ atomCreators = << >>
  /\ moduleAtoms = << >>
  /\ nextBundle = 0
  /\ held = << >>
  /\ clock = 0
  /\ idb = << >>
  /\ sandboxes = << >>
  /\ audios = << >>
  /\ requests = << >>
  /\ notified = [ permission |-> "default", prompts |-> 0,
                  shown |-> << >>, posted |-> << >> ]
  /\ providers = << >>
  /\ store = [ dashboards |-> << >>, currentDashboardId |-> [ null |-> TRUE ],
               lastError |-> [ null |-> TRUE ] ]
  /\ nanoids = 0
  /\ exports = {}
  /\ last = [ op |-> "init" ]

\* a client calls on(eventType, callback) and keeps the returned closure
On(eventType, callback) ==
  /\ Len(handles) < MaxSubs
  /\ events' = BusOn(events, eventType, callback)
  /\ handles' = Append(handles,
                  [ type |-> eventType, cb |-> callback, calls |-> 0 ])
  /\ last' = [ op |-> "on", h |-> Len(handles) + 1 ]
  /\ UNCHANGED << eventLog, history, emitCount, regVars, sbxVars, dashVars >>

\* a client calls the closure returned by the h-th on() call
Unsubscribe(h) ==
  /\ h \in 1..Len(handles)
  /\ events' = BusUnsubscribe(events, handles[h].type, handles[h].cb)
  /\ handles' = [ handles EXCEPT ![h].calls = Saturate(handles[h].calls + 1) ]
  /\ last' = [ op |-> "unsubscribe", h |-> h,
               nth |-> Saturate(handles[h].calls + 1), threw |-> FALSE ]
  /\ UNCHANGED << eventLog, history, emitCount, regVars, sbxVars, dashVars >>

\* what emit() does to the log
Logged(event) ==
  /\ eventLog' = LogEvent(eventLog, event)
  /\ history' = Append(history, event)

\* EventBus.emit with callbacks that return or throw
Emit(eventType, payload, moduleId, moduleType, throwers) ==
  LET event == MakeEvent(eventType, payload, moduleId, moduleType, clock)
      d     == Deliver(SubscribersOf(events, eventType), throwers)
  IN  /\ Logged(event)
      /\ emitCount' = emitCount + 1
      /\ last' = [ op |-> "emit", type |-> eventType, event |-> event,
                   calls |-> d.calls, caught |-> d.caught,
                   escaped |-> d.escaped ]
      /\ UNCHANGED << events, handles, regVars, sbxVars, dashVars >>

\* EventBus.clearEventLog
ClearEventLog ==
  /\ eventLog' = << >>
  /\ history' = << >>
  /\ last' = [ op |-> "clearEventLog" ]
  /\ UNCHANGED << events, handles, emitCount, regVars, sbxVars, dashVars >>

BusEmit ==
  /\ emitCount < MaxBusEmits
  /\ \E t \in BusTypes :
       \E throwers \in SUBSET Range(SubscribersOf(events, t)) :
         Emit(t, Undefined, NoString, NoString, throwers)

BusOnStep == \E t \in BusTypes, cb \in Callbacks : On(t, cb)

BusUnsubscribeStep == \E h \in 1..MaxSubs : Unsubscribe(h)

NextBus ==
  \/ BusOnStep
  \/ BusUnsubscribeStep
  \/ BusEmit

SpecBus == Init /\ [][NextBus]_vars

\* EventBus.getEventLog: a copy of the log
GetEventLog == eventLog

(***************************************************************************)
(* Specification of the log: emit() past the capacity, and clearEventLog() *)
(***************************************************************************)
LogEmit ==
  /\ emitCount < maxLogSize + MaxOverflow
  /\ Emit("module:state-changed", [ n |-> emitCount ], NoString, NoString, {})

LogClear ==
  /\ eventLog # << >>
  /\ ClearEventLog

NextLog ==
  \/ LogEmit
  \/ LogClear

SpecLog == Init /\ [][NextLog]_vars

(***************************************************************************)
(* Specification of re-entrant delivery: a subscriber that calls emit()    *)
(* while it is being notified                                              *)
(***************************************************************************)
\* callbacks clients pass to on(): cbA returns; cbEmit, when it is notified
\* of a module:initialized event, emits module:state-changed and returns
ReentrantCallbacks == { "cbA", "cbEmit" }

\* the callback, notified of an event of the type, calls emit()
Reemits(callback, eventType) ==
  callback = "cbEmit" /\ eventType = "module:initialized"

RECURSIVE EmitNested(_, _, _)
RECURSIVE NotifyFrom(_, _, _, _, _)
\* EventBus.emit, called from a client or from a callback: the event is logged
\* and the subscribers of the type are notified before emit() returns. st is
\* the log, the number of emit() calls made, and the callback invocations
\* made so far, each with the ordinal of the emit() call that made it.
EmitNested(ev, eventType, st) ==
  LET n      == st.count + 1
      event  == MakeEvent(eventType, Undefined, NoString, NoString, clock)
      logged == [ log     |-> LogEvent(st.log, event),
                  history |-> Append(st.history, event),
                  count   |-> n,
                  trace   |-> st.trace ]
  IN  NotifyFrom(ev, eventType, 1, n, logged)

\* callbacks.forEach of the n-th emit() call, from the i-th callback on: a
\* callback that emits runs that emit() to its end before it returns
NotifyFrom(ev, eventType, i, n, st) ==
  LET cbs == SubscribersOf(ev, eventType)
  IN  IF i > Len(cbs) THEN st
      ELSE LET called == [ st EXCEPT !.trace =
                             Append(@, [ emit |-> n, cb |-> cbs[i] ]) ]
               after  == IF Reemits(cbs[i], eventType)
                         THEN EmitNested(ev, "module:state-changed", called)
                         ELSE called
           IN  NotifyFrom(ev, eventType, i + 1, n, after)

\* a client calls emit(eventType)
EmitReentrant(eventType) ==
  LET st == EmitNested(events, eventType,
              [ log |-> eventLog, history |-> history, count |-> emitCount,
                trace |-> << >> ])
  IN  /\ eventLog' = st.log
      /\ history' = st.history
      /\ emitCount' = st.count
      /\ last' = [ op |-> "emit", type |-> eventType, trace |-> st.trace ]
      /\ UNCHANGED << events, handles, regVars, sbxVars, dashVars >>

ReOnStep == \E t \in BusTypes, cb \in ReentrantCallbacks : On(t, cb)

ReUnsubscribeStep == \E h \in 1..MaxSubs : Unsubscribe(h)

ReEmitStep ==
  /\ emitCount < MaxBusEmits
  /\ \E t \in BusTypes : EmitReentrant(t)

NextReentrant ==
  \/ ReOnStep
  \/ ReUnsubscribeStep
  \/ ReEmitStep

SpecReentrant == Init /\ [][NextReentrant]_vars

(***************************************************************************)
(* Module atoms registry (src/unnamed/part_003)                            *)
(***************************************************************************)
\* module types and instance ids the clients use
TypeT == << "t" >>
TypeU == << "u" >>
RegTypes == { TypeT, TypeU }
\* ids clients pass explicitly: a plain id and one of the form type:instance
GivenIds == { << "i" >>, << "t", ":", "i" >> }
\* atom creator functions modules register
AtomCreators == { "createA", "createB" }

\* the cache key `${moduleType}:${moduleId}`
AtomsKey(moduleType, moduleId) == moduleType \o << ":" >> \o moduleId

\* ModuleAtomsRegistry.hasModuleAtoms on a given cache
HasAtomsIn(atoms, moduleType, moduleId) ==
  MapHas(atoms, AtomsKey(moduleType, moduleId))

\* ModuleAtomsRegistry.hasModuleAtoms
HasModuleAtoms(moduleType, moduleId) ==
  HasAtomsIn(moduleAtoms, moduleType, moduleId)

\* the object creator(moduleId) returns: a new object at every call
NewBundle(creator, moduleId, serial) ==
  [ creator |-> creator, moduleId |-> moduleId, serial |-> serial ]

\* bookkeeping of what callers were given: getModuleAtoms() returned bundle
\* for the pair; a removal was asked for the pair
Holds(pair, bundle) == MapSet(held, pair, [ bundle |-> bundle, live |-> TRUE ])
Released(pair) ==
  IF MapHas(held, pair)
  THEN [ held EXCEPT ![pair].live = FALSE ] ELSE held

\* ModuleAtomsRegistry.registerAtomCreator: overwrites (with a warning)
RegisterAtomCreator(moduleType, creator) ==
  /\ atomCreators' = MapSet(atomCreators, moduleType, creator)
  /\ last' = [ op |-> "registerAtomCreator",
               warned |-> MapHas(atomCreators, moduleType) ]
  /\ UNCHANGED << busVars, sbxVars, dashVars, modules, instances, moduleAtoms, nextBundle,
                  held, clock >>

\* getModuleAtoms that calls the creator at every call
GetModuleAtomsAlwaysCreate(moduleType, moduleId) ==
  LET key == AtomsKey(moduleType, moduleId)
  IN  IF ~MapHas(atomCreators, moduleType)
      THEN /\ last' = [ op |-> "getModuleAtoms", type |-> moduleType,
                        id |-> moduleId, threw |-> TRUE, ret |-> Undefined ]
           /\ UNCHANGED << moduleAtoms, nextBundle, held >>
      ELSE LET bundle == NewBundle(atomCreators[moduleType], moduleId,
                                   nextBundle)
           IN  /\ moduleAtoms' = MapSet(moduleAtoms, key, bundle)
               /\ nextBundle' = nextBundle + 1
               /\ held' = Holds(<< moduleType, moduleId >>, bundle)
               /\ last' = [ op |-> "getModuleAtoms", type |-> moduleType,
                            id |-> moduleId, threw |-> FALSE,
                            ret |-> bundle ]

\* ModuleAtomsRegistry.getModuleAtoms
GetModuleAtomsBody(moduleType, moduleId) ==
  LET key == AtomsKey(moduleType, moduleId)
  IN  IF MapHas(moduleAtoms, key)
      THEN /\ held' = Holds(<< moduleType, moduleId >>, moduleAtoms[key])
           /\ last' = [ op |-> "getModuleAtoms", type |-> moduleType,
                        id |-> moduleId, threw |-> FALSE,
                        ret |-> moduleAtoms[key] ]
           /\ UNCHANGED << moduleAtoms, nextBundle >>
      ELSE IF ~MapHas(atomCreators, moduleType)
      THEN /\ last' = [ op |-> "getModuleAtoms", type |-> moduleType,
                        id |-> moduleId, threw |-> TRUE, ret |-> Undefined ]
           /\ UNCHANGED << moduleAtoms, nextBundle, held >>
      ELSE LET bundle == NewBundle(atomCreators[moduleType], moduleId,
                                   nextBundle)
           IN  /\ moduleAtoms' = MapSet(moduleAtoms, key, bundle)
               /\ nextBundle' = nextBundle + 1
               /\ held' = Holds(<< moduleType, moduleId >>, bundle)
               /\ last' = [ op |-> "getModuleAtoms", type |-> moduleType,
                            id |-> moduleId, threw |-> FALSE,
                            ret |-> bundle ]

GetModuleAtoms(moduleType, moduleId) ==
  /\ GetModuleAtomsBody(moduleType, moduleId)
  /\ UNCHANGED << busVars, sbxVars, dashVars, modules, instances, atomCreators, clock >>

\* ModuleAtomsRegistry.removeModuleAtoms on a given cache
RemoveAtomsIn(atoms, moduleType, moduleId) ==
  MapDelete(atoms, AtomsKey(moduleType, moduleId))

\* ModuleAtomsRegistry.removeModuleAtoms
RemoveModuleAtoms(moduleType, moduleId) ==
  /\ moduleAtoms' = RemoveAtomsIn(moduleAtoms, moduleType, moduleId)
  /\ held' = Released(<< moduleType, moduleId >>)
  /\ last' = [ op |-> "removeModuleAtoms", type |-> moduleType,
               id |-> moduleId ]
  /\ UNCHANGED << busVars, sbxVars, dashVars, modules, instances, atomCreators, nextBundle,
                  clock >>

(***************************************************************************)
(* Module registry (src/src/lib/modules/moduleRegistry.ts)                 *)
(***************************************************************************)
ConfigFields ==
  { "id", "type", "version", "position", "size", "settings",
    "createdAt", "updatedAt" }

\* versions of definitions and of stored settings
VersionOne == << "1" >>
VersionTwo == << "2" >>

\* the definition a module of the given type registers; migration says
\* whether it has a migrationStrategy
Definition(type, migration) ==
  [ type |-> type, version |-> VersionOne,
    defaultSize |-> [ width |-> 2, height |-> 2 ],
    defaultSettings |-> [ data |-> "default", shape |-> VersionOne ],
    permissions |-> { "audio:play" },
    migration |-> migration ]

\* a migrationStrategy that returns: the settings reshaped for newVersion
MigrationStrategy(oldSettings, oldVersion, newVersion) ==
  [ oldSettings EXCEPT !.shape = newVersion ]

\* ModuleRegistry.getDefinition
GetDefinition(type) == MapGet(modules, type)

\* ModuleRegistry.getInstance on a given instance map
GetInstanceIn(insts, id) == MapGet(insts, id)

\* ModuleRegistry.getInstance
GetInstance(id) == GetInstanceIn(instances, id)

\* overrides?.f || fallback, for a string field f
OverrideOr(overrides, f, fallback) ==
  IF f \in DOMAIN overrides /\ Truthy(overrides[f])
  THEN overrides[f] ELSE fallback

\* overrides?.f || fallback, for an object field f (an object is truthy)
OverrideObjectOr(overrides, f, fallback) ==
  IF f \in DOMAIN overrides THEN overrides[f] ELSE fallback

\* registerModule without the duplicate test: a later definition replaces
\* the registered one and is announced
RegisterModuleOverwrite(definition) ==
  /\ modules' = MapSet(modules, definition.type, definition)
  /\ Logged(MakeEvent("module:initialized",
                      [ version |-> definition.version ],
                      NoString, definition.type, clock))
  /\ last' = [ op |-> "registerModule", definition |-> definition,
               threw |-> FALSE ]
  /\ UNCHANGED << events, handles, emitCount, sbxVars, dashVars, instances,
                  atomCreators, moduleAtoms, nextBundle, held, clock >>

\* ModuleRegistry.registerModule
RegisterModule(definition) ==
  IF MapHas(modules, definition.type)
  THEN /\ last' = [ op |-> "registerModule", definition |-> definition,
                    threw |-> TRUE ]
       /\ UNCHANGED << busVars, regVars, sbxVars, dashVars >>
  ELSE /\ modules' = MapSet(modules, definition.type, definition)
       /\ Logged(MakeEvent("module:initialized",
                           [ version |-> definition.version ],
                           NoString, definition.type, clock))
       /\ last' = [ op |-> "registerModule", definition |-> definition,
                    threw |-> FALSE ]
       /\ UNCHANGED << events, handles, emitCount, sbxVars, dashVars, instances, atomCreators,
                       moduleAtoms, nextBundle, held, clock >>

\* a config that takes type and version from the overrides when they carry
\* them
NewConfigOverridable(definition, type, overrides, now) ==
  [ id        |-> OverrideOr(overrides, "id",
                             type \o << "-" >> \o ToDecimal(now)),
    type      |-> OverrideOr(overrides, "type", type),
    version   |-> OverrideOr(overrides, "version", definition.version),
    position  |-> OverrideObjectOr(overrides, "position",
                                   [ x |-> 0, y |-> 0 ]),
    size      |-> OverrideObjectOr(overrides, "size",
                                   definition.defaultSize),
    settings  |-> OverrideObjectOr(overrides, "settings",
                                   definition.defaultSettings),
    createdAt |-> OverrideOr(overrides, "createdAt", IsoString(now)),
    updatedAt |-> OverrideOr(overrides, "updatedAt", IsoString(now)) ]

\* the config createModuleConfig builds
NewConfig(definition, type, overrides, now) ==
  [ id        |-> OverrideOr(overrides, "id",
                             type \o << "-" >> \o ToDecimal(now)),
    type      |-> type,
    version   |-> definition.version,
    position  |-> OverrideObjectOr(overrides, "position",
                                   [ x |-> 0, y |-> 0 ]),
    size      |-> OverrideObjectOr(overrides, "size",
                                   definition.defaultSize),
    settings  |-> OverrideObjectOr(overrides, "settings",
                                   definition.defaultSettings),
    createdAt |-> OverrideOr(overrides, "createdAt", IsoString(now)),
    updatedAt |-> OverrideOr(overrides, "updatedAt", IsoString(now)) ]

\* ModuleRegistry.createModuleConfig
CreateModuleConfig(type, overrides) ==
  IF GetDefinition(type) = Undefined
  THEN /\ last' = [ op |-> "createModuleConfig", type |-> type,
                    overrides |-> overrides, threw |-> TRUE,
                    ret |-> Undefined ]
       /\ UNCHANGED << busVars, regVars, sbxVars, dashVars >>
  ELSE LET config == NewConfig(GetDefinition(type), type, overrides, clock)
       IN  /\ instances' = MapSet(instances, config.id, config)
           /\ last' = [ op |-> "createModuleConfig", type |-> type,
                        overrides |-> overrides, threw |-> FALSE,
                        ret |-> config ]
           /\ UNCHANGED << busVars, sbxVars, dashVars, modules, atomCreators, moduleAtoms,
                           nextBundle, held, clock >>

\* the merge that keeps whatever id, type and createdAt the updates carry
MergeUpdatesNoPreserve(existing, updates, now) ==
  [ f \in ConfigFields |->
      IF f = "updatedAt" THEN IsoString(now)
      ELSE IF f \in DOMAIN updates THEN updates[f]
      ELSE existing[f] ]

\* the record updateModuleConfig builds: { ...existing, ...updates,
\* updatedAt: now }, then id, type and createdAt set back to the existing ones
MergeUpdates(existing, updates, now) ==
  [ f \in ConfigFields |->
      IF f \in { "id", "type", "createdAt" } THEN existing[f]
      ELSE IF f = "updatedAt" THEN IsoString(now)
      ELSE IF f \in DOMAIN updates THEN updates[f]
      ELSE existing[f] ]

\* a migration that calls the strategy and drops its result
MigrateModuleSettingsDropResult(insts, id, oldVersion, newVersion, outcome) ==
  insts

\* ModuleRegistry.migrateModuleSettings: the instance map afterwards.
\* outcome says whether the migrationStrategy, when called, returns or throws.
MigrateModuleSettings(insts, id, oldVersion, newVersion, outcome) ==
  LET instance   == MapGet(insts, id)
      definition == GetDefinition(instance.type)
  IN  IF instance = Undefined THEN insts
      ELSE IF definition = Undefined THEN insts
      ELSE IF definition.migration = "none" THEN insts
      ELSE IF outcome = "throw" THEN insts
      ELSE MapSet(insts, id,
             [ instance EXCEPT
                 !.settings = MigrationStrategy(instance.settings,
                                                oldVersion, newVersion),
                 !.version = newVersion ])

\* updates.version && updates.version !== existing.version
VersionChanges(existing, updates) ==
  /\ "version" \in DOMAIN updates
  /\ Truthy(updates.version)
  /\ updates.version # existing.version

\* the migrationStrategy of the instance's definition is called
StrategyCalled(existing, updates) ==
  /\ VersionChanges(existing, updates)
  /\ GetDefinition(existing.type) # Undefined
  /\ GetDefinition(existing.type).migration # "none"

\* updateModuleConfig announcing the record as it is before the migration
UpdateModuleConfigEmitFirst(id, updates, outcome) ==
  LET existing == MapGet(instances, id)
  IN  IF existing = Undefined
      THEN /\ last' = [ op |-> "updateModuleConfig", id |-> id,
                        before |-> Undefined, updates |-> updates,
                        strategy |-> "none", threw |-> FALSE,
                        ret |-> Undefined ]
           /\ UNCHANGED << busVars, regVars, sbxVars, dashVars >>
      ELSE LET updated  == MergeUpdates(existing, updates, clock)
               stored   == MapSet(instances, id, updated)
               migrated == IF VersionChanges(existing, updates)
                           THEN MigrateModuleSettings(stored, id,
                                  existing.version, updates.version, outcome)
                           ELSE stored
               final    == migrated[id]
           IN  /\ instances' = migrated
               /\ Logged(MakeEvent("module:settings-changed", updated, id,
                                   existing.type, clock))
               /\ last' = [ op |-> "updateModuleConfig", id |-> id,
                            before |-> existing, updates |-> updates,
                            strategy |-> IF StrategyCalled(existing, updates)
                                         THEN outcome ELSE "none",
                            threw |-> FALSE, ret |-> final ]
               /\ UNCHANGED << events, handles, emitCount, sbxVars, dashVars, modules,
                               atomCreators, moduleAtoms, nextBundle, held,
                               clock >>

\* ModuleRegistry.updateModuleConfig
UpdateModuleConfig(id, updates, outcome) ==
  LET existing == MapGet(instances, id)
  IN  IF existing = Undefined
      THEN /\ last' = [ op |-> "updateModuleConfig", id |-> id,
                        before |-> Undefined, updates |-> updates,
                        strategy |-> "none", threw |-> FALSE,
                        ret |-> Undefined ]
           /\ UNCHANGED << busVars, regVars, sbxVars, dashVars >>
      ELSE LET updated  == MergeUpdates(existing, updates, clock)
               stored   == MapSet(instances, id, updated)
               migrated == IF VersionChanges(existing, updates)
                           THEN MigrateModuleSettings(stored, id,
                                  existing.version, updates.version, outcome)
                           ELSE stored
               \* updated is the object the map holds: migration changed it
               final    == migrated[id]
           IN  /\ instances' = migrated
               /\ Logged(MakeEvent("module:settings-changed", final, id,
                                   existing.type, clock))
               /\ last' = [ op |-> "updateModuleConfig", id |-> id,
                            before |-> existing, updates |-> updates,
                            strategy |-> IF StrategyCalled(existing, updates)
                                         THEN outcome ELSE "none",
                            threw |-> FALSE, ret |-> final ]
               /\ UNCHANGED << events, handles, emitCount, sbxVars, dashVars, modules,
                               atomCreators, moduleAtoms, nextBundle, held,
                               clock >>

\* removeInstance that forgets the atoms of the instance
RemoveInstanceKeepAtoms(id) ==
  LET instance == MapGet(instances, id)
  IN  IF instance = Undefined
      THEN /\ last' = [ op |-> "removeInstance", id |-> id,
                        before |-> Undefined, hadAtoms |-> FALSE,
                        ret |-> FALSE ]
           /\ UNCHANGED << busVars, regVars, sbxVars, dashVars >>
      ELSE /\ instances' = MapDelete(instances, id)
           /\ last' = [ op |-> "removeInstance", id |-> id,
                        before |-> instance,
                        hadAtoms |-> HasModuleAtoms(instance.type, id),
                        ret |-> TRUE ]
           /\ UNCHANGED << busVars, sbxVars, dashVars, modules, atomCreators, moduleAtoms,
                           held, nextBundle, clock >>

\* ModuleRegistry.removeInstance
RemoveInstance(id) ==
  LET instance == MapGet(instances, id)
  IN  IF instance = Undefined
      THEN /\ last' = [ op |-> "removeInstance", id |-> id,
                        before |-> Undefined, hadAtoms |-> FALSE,
                        ret |-> FALSE ]
           /\ UNCHANGED << busVars, regVars, sbxVars, dashVars >>
      ELSE /\ moduleAtoms' = RemoveAtomsIn(moduleAtoms, instance.type, id)
           /\ held' = Released(<< instance.type, id >>)
           /\ instances' = MapDelete(instances, id)
           /\ last' = [ op |-> "removeInstance", id |-> id,
                        before |-> instance,
                        hadAtoms |-> HasModuleAtoms(instance.type, id),
                        ret |-> TRUE ]
           /\ UNCHANGED << busVars, sbxVars, dashVars, modules, atomCreators, nextBundle,
                           clock >>

(***************************************************************************)
(* Specification of the atoms registry                                     *)
(***************************************************************************)
AtomsRegisterStep ==
  \E t \in RegTypes, c \in AtomCreators : RegisterAtomCreator(t, c)

AtomsGetStep ==
  /\ nextBundle < MaxBundles
  /\ \E t \in RegTypes, i \in GivenIds : GetModuleAtoms(t, i)

AtomsRemoveStep ==
  \E t \in RegTypes, i \in GivenIds : RemoveModuleAtoms(t, i)

NextAtoms ==
  \/ AtomsRegisterStep
  \/ AtomsGetStep
  \/ AtomsRemoveStep

SpecAtoms == Init /\ [][NextAtoms]_vars

(***************************************************************************)
(* Specifications of the registry: the operations on definitions and       *)
(* instances (SpecRegistry), and the removal of instances with their atoms *)
(* (SpecRemove). The event log is read and cleared after every operation   *)
(* that emits.                                                             *)
(***************************************************************************)
\* the definitions the modules register: one with a migrationStrategy, one
\* without
Definitions == { Definition(TypeT, "strategy"), Definition(TypeU, "none") }

\* the overrides callers of createModuleConfig pass
CreateOverrides ==
  { << >>, [ id |-> << "t", ":", "i" >> ],
    [ settings |-> [ data |-> "custom", shape |-> VersionOne ] ] }

\* the updates callers of updateModuleConfig pass: a settings change, a
\* version change, both, and an attempt to change id, type and createdAt
Updates ==
  { [ settings |-> [ data |-> "custom", shape |-> VersionOne ] ],
    [ version |-> VersionTwo ],
    [ version |-> VersionTwo,
      settings |-> [ data |-> "custom", shape |-> VersionOne ] ],
    [ id |-> << "x" >>, type |-> << "x" >>, createdAt |-> IsoString(9) ] }

RegRegisterStep ==
  /\ eventLog = << >>
  /\ \E d \in Definitions : RegisterModule(d)

RegCreateStep ==
  /\ eventLog = << >>
  /\ Cardinality(DOMAIN instances) < MaxInstances
  /\ \E t \in RegTypes, o \in CreateOverrides : CreateModuleConfig(t, o)

\* the ids callers ask about: those of the stored instances, and one id
\* that is unknown unless an instance was created with it
ProbeIds == DOMAIN instances \cup { << "t", ":", "i" >> }

RegUpdateStep ==
  /\ eventLog = << >>
  /\ \E i \in ProbeIds, u \in Updates, o \in { "return", "throw" } :
       UpdateModuleConfig(i, u, o)

RegRemoveStep ==
  /\ eventLog = << >>
  /\ \E i \in ProbeIds : RemoveInstance(i)

\* a module registers the atom creator of its type
RegAtomCreatorStep ==
  /\ eventLog = << >>
  /\ \E t \in RegTypes : RegisterAtomCreator(t, "createA")

\* a mounted instance asks for its atoms
RegAtomsStep ==
  /\ eventLog = << >>
  /\ nextBundle < MaxBundles
  /\ \E i \in DOMAIN instances : GetModuleAtoms(instances[i].type, i)

RegClearLogStep ==
  /\ eventLog # << >>
  /\ ClearEventLog

NextRegistry ==
  \/ RegRegisterStep
  \/ RegCreateStep
  \/ RegUpdateStep
  \/ RegRemoveStep
  \/ RegClearLogStep

SpecRegistry == Init /\ [][NextRegistry]_vars

NextRemove ==
  \/ RegRegisterStep
  \/ RegCreateStep
  \/ RegRemoveStep
  \/ RegAtomCreatorStep
  \/ RegAtomsStep
  \/ RegClearLogStep

SpecRemove == Init /\ [][NextRemove]_vars

(***************************************************************************)
(* Specification of registration and creation: definitions are registered, *)
(* instances are created and removed, and time passes                      *)
(***************************************************************************)
\* Date.now() advances
Tick ==
  /\ clock < MaxClock
  /\ clock' = clock + 1
  /\ last' = [ op |-> "tick" ]
  /\ UNCHANGED << busVars, sbxVars, dashVars, modules, instances, atomCreators,
                  moduleAtoms, nextBundle, held >>

\* the definitions modules register: two that claim the type t, with
\* different versions and defaults, and one of the type u
CreateDefinitions ==
  { Definition(TypeT, "strategy"),
    [ Definition(TypeT, "none") EXCEPT
        !.version = VersionTwo,
        !.defaultSize = [ width |-> 3, height |-> 1 ],
        !.defaultSettings = [ data |-> "other", shape |-> VersionTwo ] ],
    Definition(TypeU, "none") }

\* the overrides callers of createModuleConfig pass: none, an id, settings,
\* a size, and a type and version of their own
CreateInputs ==
  CreateOverrides \cup
    { [ size |-> [ width |-> 4, height |-> 1 ] ],
      [ type |-> << "x" >>, version |-> << "9" >> ] }

CreateRegisterStep ==
  /\ eventLog = << >>
  /\ \E d \in CreateDefinitions : RegisterModule(d)

CreateConfigStep ==
  /\ eventLog = << >>
  /\ Cardinality(DOMAIN instances) < MaxCreated
  /\ \E t \in RegTypes, o \in CreateInputs : CreateModuleConfig(t, o)

CreateRemoveStep ==
  /\ eventLog = << >>
  /\ \E i \in DOMAIN instances : RemoveInstance(i)

NextCreate ==
  \/ CreateRegisterStep
  \/ CreateConfigStep
  \/ CreateRemoveStep
  \/ RegClearLogStep
  \/ Tick

SpecCreate == Init /\ [][NextCreate]_vars

(***************************************************************************)
(* Module sandbox (src/src/lib/modules/moduleSandbox.ts)                   *)
(***************************************************************************)
\* null, as getItem() returns it when the store fails
Null == [ null |-> TRUE ]

\* the literal "module:" of the storage key prefix
ModuleLiteral == << "m", "o", "d", "u", "l", "e", ":" >>

\* storageKeyPrefix = `module:${moduleId}:`
StorageKeyPrefix(moduleId) == ModuleLiteral \o moduleId \o << ":" >>

\* a key that leaves the instance id out: `module:${key}`
StorageKeyShared(moduleId, key) == ModuleLiteral \o key

\* `${storageKeyPrefix}${key}`
StorageKey(moduleId, key) == StorageKeyPrefix(moduleId) \o key

\* options.method?.toUpperCase() || 'GET', on the methods callers pass
\* ("" stands for no method given)
EffectiveMethod(method) ==
  CASE method = ""       -> "GET"
    [] method = "get"    -> "GET"
    [] method = "head"   -> "HEAD"
    [] method = "post"   -> "POST"
    [] method = "delete" -> "DELETE"
    [] OTHER             -> method

\* a gate that asks for network:read whatever the method
FetchPermittedReadOnly(sandbox, method) == sandbox.hasNetworkRead

\* a gate that looks the permission up in the exposed array at every call
FetchPermittedAtCall(sandbox, method) ==
  IF EffectiveMethod(method) \in { "GET", "HEAD" }
  THEN "network:read" \in sandbox.permissions
  ELSE "network:write" \in sandbox.permissions

\* the permission check of the sandboxed fetch
FetchPermitted(sandbox, method) ==
  IF EffectiveMethod(method) \in { "GET", "HEAD" }
  THEN sandbox.hasNetworkRead
  ELSE sandbox.hasNetworkWrite

BlockedDomains == { "localhost", "127.0.0.1", "internal.lythra.com" }
BlockedPaths == { << "/api/auth" >>, << "/api/admin" >>, << "/api/internal" >> }

\* String.startsWith on sequences
StartsWith(str, prefix) ==
  /\ Len(prefix) <= Len(str)
  /\ SubSeq(str, 1, Len(prefix)) = prefix

\* createModuleSandbox: the four accessors close over the id and over the
\* permissions they found in the list when the sandbox was built
CreateModuleSandbox(moduleId, permissions) ==
  /\ sandboxes' = Append(sandboxes,
       [ moduleId |-> moduleId,
         permissions |-> permissions,
         hasNetworkRead |-> "network:read" \in permissions,
         hasNetworkWrite |-> "network:write" \in permissions,
         hasAudioPermission |-> "audio:play" \in permissions,
         hasNotificationPermission |-> "notifications:create" \in permissions,
         audioElements |-> << >> ])
  /\ last' = [ op |-> "createModuleSandbox", sb |-> Len(sandboxes) + 1 ]
  /\ UNCHANGED << busVars, regVars, dashVars, idb, audios, requests, notified,
                  providers >>

\* storage.getItem of sandbox sb; fails says whether the store rejects
GetItem(sb, key, fails) ==
  /\ last' = [ op |-> "getItem", sb |-> sb, key |-> key, failed |-> fails,
               ret |-> IF fails THEN Null
                       ELSE MapGet(idb,
                              StorageKey(sandboxes[sb].moduleId, key)) ]
  /\ UNCHANGED << busVars, regVars, sbxVars, dashVars >>

\* storage.setItem of sandbox sb; the value names the write that stored it
SetItem(sb, key, value, fails) ==
  /\ idb' = IF fails THEN idb
            ELSE MapSet(idb, StorageKey(sandboxes[sb].moduleId, key), value)
  /\ last' = [ op |-> "setItem", sb |-> sb, key |-> key, failed |-> fails ]
  /\ UNCHANGED << busVars, regVars, dashVars, sandboxes, audios, requests, notified,
                  providers >>

\* storage.removeItem of sandbox sb
RemoveItem(sb, key, fails) ==
  /\ idb' = IF fails THEN idb
            ELSE MapDelete(idb, StorageKey(sandboxes[sb].moduleId, key))
  /\ last' = [ op |-> "removeItem", sb |-> sb, key |-> key,
               failed |-> fails ]
  /\ UNCHANGED << busVars, regVars, dashVars, sandboxes, audios, requests, notified,
                  providers >>

\* the key storage.keys() reads the list of all keys from
AllKeysKey == << "__all_keys__" >>

\* storage.keys() of a sandbox of moduleId on the store db:
\* get('__all_keys__') || [], the entries under the prefix, prefix stripped
KeysIn(db, moduleId) ==
  LET allKeys == IF MapHas(db, AllKeysKey) THEN db[AllKeysKey] ELSE << >>
      prefix == StorageKeyPrefix(moduleId)
      mine == SelectSeq(allKeys, LAMBDA key : StartsWith(key, prefix))
  IN  [ i \in 1..Len(mine) |->
          SubSeq(mine[i], Len(prefix) + 1, Len(mine[i])) ]

\* storage.keys() of sandbox sb; fails says whether the store rejects
Keys(sb, fails) ==
  /\ last' = [ op |-> "keys", sb |-> sb, failed |-> fails,
               ret |-> IF fails THEN << >>
                       ELSE KeysIn(idb, sandboxes[sb].moduleId) ]
  /\ UNCHANGED << busVars, regVars, sbxVars, dashVars >>

RECURSIVE RemoveAll(_, _, _, _)
\* the loop of clear(): removeItem(key) for each key from position i on
RemoveAll(db, moduleId, keys, i) ==
  IF i > Len(keys) THEN db
  ELSE RemoveAll(MapDelete(db, StorageKey(moduleId, keys[i])), moduleId,
                 keys, i + 1)

\* storage.clear() of sandbox sb: the keys keys() returns, each removed
Clear(sb, fails) ==
  /\ idb' = IF fails THEN idb
            ELSE RemoveAll(idb, sandboxes[sb].moduleId,
                           KeysIn(idb, sandboxes[sb].moduleId), 1)
  /\ last' = [ op |-> "clear", sb |-> sb, failed |-> fails ]
  /\ UNCHANGED << busVars, regVars, dashVars, sandboxes, audios, requests, notified,
                  providers >>

\* the host of window.location.origin
OriginHost == "app.lythra.com"

\* new URL(url, window.location.origin): a URL without a host ("" here) is
\* resolved against the origin
ResolveUrl(url) ==
  [ hostname |-> IF url.hostname = "" THEN OriginHost ELSE url.hostname,
    pathname |-> url.pathname ]

\* the X-Lythra-Module-ID header of new Headers(options.headers) after
\* append('X-Lythra-Module-ID', moduleId): append adds the value to the
\* values the caller gave for the name, which read back joined with ", "
ModuleIdHeader(given, moduleId) ==
  IF given = NoString THEN moduleId
  ELSE given \o << ",", " " >> \o moduleId

\* the sandboxed fetch of sandbox sb; givenHeader is the X-Lythra-Module-ID
\* value of options.headers (NoString when the caller gives none); outcome
\* is what the platform's fetch does with an issued request
Fetch(sb, method, url, givenHeader, outcome) ==
  LET sandbox == sandboxes[sb]
      urlObj  == ResolveUrl(url)
      error ==
        IF ~FetchPermitted(sandbox, method) THEN "permission"
        ELSE IF urlObj.hostname \in BlockedDomains THEN "blocked-domain"
        ELSE IF \E path \in BlockedPaths :
                  StartsWith(urlObj.pathname, path)
        THEN "blocked-path"
        ELSE IF outcome = "reject" THEN "network"
        ELSE "none"
      issued == error \in { "network", "none" }
  IN  /\ requests' =
           IF issued
           THEN Append(requests,
                  [ url |-> url, method |-> method,
                    header |-> ModuleIdHeader(givenHeader,
                                              sandbox.moduleId) ])
           ELSE requests
      /\ last' = [ op |-> "fetch", sb |-> sb, method |-> method,
                   url |-> url, threw |-> error # "none",
                   error |-> error ]
      /\ UNCHANGED << busVars, regVars, dashVars, idb, sandboxes, audios, notified,
                      providers >>

\* options.id || `${moduleId}-audio-${Date.now()}`
SoundId(moduleId, given, now) ==
  IF Truthy(given) THEN given
  ELSE moduleId \o << "-audio-" >> \o ToDecimal(now)

\* audio.playSound of sandbox sb up to its await of audio.play(): the
\* permission check, the stop of an element that has the id, the new element
PlaySoundCall(sb, source, givenId, loop) ==
  LET sandbox == sandboxes[sb]
      id      == SoundId(sandbox.moduleId, givenId, clock)
      stopped == IF MapHas(sandbox.audioElements, id)
                 THEN [ audios EXCEPT
                          ![sandbox.audioElements[id]].playing = FALSE ]
                 ELSE audios
      audio   == [ source |-> source, volume |-> 10, loop |-> loop,
                   playing |-> TRUE, pending |-> TRUE, sb |-> sb,
                   id |-> id ]
  IN  IF ~sandbox.hasAudioPermission
      THEN /\ last' = [ op |-> "playSound", sb |-> sb, threw |-> TRUE ]
           /\ UNCHANGED << busVars, regVars, sbxVars, dashVars >>
      ELSE /\ audios' = Append(stopped, audio)
           /\ sandboxes' = [ sandboxes EXCEPT ![sb].audioElements =
                               MapSet(sandbox.audioElements, id,
                                      Len(audios) + 1) ]
           /\ last' = [ op |-> "playSound", sb |-> sb, threw |-> FALSE ]
           /\ UNCHANGED << busVars, regVars, dashVars, idb, requests, notified, providers >>

\* the promise of audio.play() settles for element a: playSound returns the
\* id, or deletes the map entry of the id and throws. The promise of an
\* element that was paused meanwhile rejects.
PlaySoundSettle(a, ok) ==
  LET audio == audios[a]
  IN  /\ audio.pending
      /\ ok => audio.playing
      /\ audios' = [ audios EXCEPT ![a].pending = FALSE,
                                   ![a].playing = audio.playing /\ ok ]
      /\ sandboxes' =
           IF ok THEN sandboxes
           ELSE [ sandboxes EXCEPT ![audio.sb].audioElements =
                    MapDelete(sandboxes[audio.sb].audioElements, audio.id) ]
      /\ last' = [ op |-> "playSoundSettled", sb |-> audio.sb,
                   threw |-> ~ok ]
      /\ UNCHANGED << busVars, regVars, dashVars, idb, requests, notified, providers >>

\* the element of a non-looping sound a reaches its end: the 'ended'
\* listener deletes the map entry of the id the sound was played with
SoundEnded(a) ==
  LET audio == audios[a]
  IN  /\ audio.playing
      /\ ~audio.pending
      /\ ~audio.loop
      /\ audios' = [ audios EXCEPT ![a].playing = FALSE ]
      /\ sandboxes' = [ sandboxes EXCEPT ![audio.sb].audioElements =
                          MapDelete(sandboxes[audio.sb].audioElements,
                                    audio.id) ]
      /\ last' = [ op |-> "ended", sb |-> audio.sb, a |-> a ]
      /\ UNCHANGED << busVars, regVars, dashVars, idb, requests, notified, providers >>

\* audio.stopSound of sandbox sb
StopSound(sb, id) ==
  LET elements == sandboxes[sb].audioElements
  IN  /\ audios' = IF MapHas(elements, id)
                   THEN [ audios EXCEPT ![elements[id]].playing = FALSE ]
                   ELSE audios
      /\ sandboxes' = [ sandboxes EXCEPT ![sb].audioElements =
                          MapDelete(elements, id) ]
      /\ last' = [ op |-> "stopSound", sb |-> sb, id |-> id ]
      /\ UNCHANGED << busVars, regVars, dashVars, idb, requests, notified, providers >>

\* audio.pauseSound of sandbox sb
PauseSound(sb, id) ==
  LET elements == sandboxes[sb].audioElements
  IN  /\ audios' = IF MapHas(elements, id)
                   THEN [ audios EXCEPT ![elements[id]].playing = FALSE ]
                   ELSE audios
      /\ last' = [ op |-> "pauseSound", sb |-> sb, id |-> id ]
      /\ UNCHANGED << busVars, regVars, dashVars, idb, sandboxes, requests, notified,
                      providers >>

\* audio.resumeSound of sandbox sb; ok says whether the element's play()
\* starts the playback (its rejection is caught and logged)
ResumeSound(sb, id, ok) ==
  LET elements == sandboxes[sb].audioElements
  IN  /\ audios' = IF MapHas(elements, id) /\ ok
                   THEN [ audios EXCEPT ![elements[id]].playing = TRUE ]
                   ELSE audios
      /\ last' = [ op |-> "resumeSound", sb |-> sb, id |-> id ]
      /\ UNCHANGED << busVars, regVars, dashVars, idb, sandboxes, requests, notified,
                      providers >>

\* what audio.stopAllSounds of sandbox sb does to the elements and the map
StopAllIn(sb) ==
  LET owned == { sandboxes[sb].audioElements[id] :
                   id \in DOMAIN sandboxes[sb].audioElements }
  IN  /\ audios' = [ a \in 1..Len(audios) |->
                       IF a \in owned
                       THEN [ audios[a] EXCEPT !.playing = FALSE ]
                       ELSE audios[a] ]
      /\ sandboxes' = [ sandboxes EXCEPT ![sb].audioElements = << >> ]

\* audio.stopAllSounds of sandbox sb
StopAllSounds(sb) ==
  /\ StopAllIn(sb)
  /\ last' = [ op |-> "stopAllSounds", sb |-> sb ]
  /\ UNCHANGED << busVars, regVars, dashVars, idb, requests, notified, providers >>

(***************************************************************************)
(* ModuleProvider (src/unnamed/part_003)                                   *)
(***************************************************************************)
\* moduleDefinition?.permissions || []
ProviderPermissions(moduleType) ==
  IF GetDefinition(moduleType) = Undefined THEN {}
  ELSE GetDefinition(moduleType).permissions

\* a ModuleProvider is rendered and mounted: the sandbox is created from the
\* permissions of the definition, and the effect emits module:initialized
MountProvider(moduleId, moduleType) ==
  /\ sandboxes' = Append(sandboxes,
       [ moduleId |-> moduleId,
         permissions |-> ProviderPermissions(moduleType),
         hasNetworkRead |->
           "network:read" \in ProviderPermissions(moduleType),
         hasNetworkWrite |->
           "network:write" \in ProviderPermissions(moduleType),
         hasAudioPermission |->
           "audio:play" \in ProviderPermissions(moduleType),
         hasNotificationPermission |->
           "notifications:create" \in ProviderPermissions(moduleType),
         audioElements |-> << >> ])
  /\ providers' = Append(providers,
       [ moduleId |-> moduleId, moduleType |-> moduleType,
         sb |-> Len(sandboxes) + 1, mounted |-> TRUE ])
  /\ Logged(MakeEvent("module:initialized",
                      [ moduleId |-> moduleId, moduleType |-> moduleType ],
                      moduleId, moduleType, clock))
  /\ last' = [ op |-> "mount", p |-> Len(providers) + 1,
               sb |-> Len(sandboxes) + 1 ]
  /\ UNCHANGED << events, handles, emitCount, regVars, dashVars, idb, audios, requests,
                  notified >>

\* the ModuleProvider p unmounts: the cleanup of its effect calls
\* sandbox.audio.stopAllSounds()
UnmountProvider(p) ==
  /\ providers[p].mounted
  /\ StopAllIn(providers[p].sb)
  /\ providers' = [ providers EXCEPT ![p].mounted = FALSE ]
  /\ last' = [ op |-> "unmount", p |-> p, sb |-> providers[p].sb ]
  /\ UNCHANGED << busVars, regVars, dashVars, idb, requests, notified >>

\* what requestPermission() of a sandbox does on the platform state nt and
\* what it returns. supported says whether window has Notification; outcome
\* is the user's answer to the prompt, or "reject" when the platform's
\* Notification.requestPermission() rejects.
RequestPermissionResult(sandbox, nt, supported, outcome) ==
  IF ~sandbox.hasNotificationPermission
  THEN [ threw |-> TRUE, ret |-> FALSE, nt |-> nt ]
  ELSE IF ~supported
  THEN [ threw |-> FALSE, ret |-> FALSE, nt |-> nt ]
  ELSE IF outcome = "reject"
  THEN [ threw |-> FALSE, ret |-> FALSE,
         nt |-> [ nt EXCEPT !.prompts = @ + 1 ] ]
  ELSE LET answer == IF nt.permission = "default"
                     THEN outcome ELSE nt.permission
       IN  [ threw |-> FALSE, ret |-> (answer = "granted"),
             nt |-> [ nt EXCEPT !.prompts = @ + 1, !.permission = answer ] ]

\* notifications.requestPermission of sandbox sb
RequestPermission(sb, supported, outcome) ==
  LET r == RequestPermissionResult(sandboxes[sb], notified, supported,
                                   outcome)
  IN  /\ notified' = r.nt
      /\ last' = [ op |-> "requestPermission", sb |-> sb,
                   threw |-> r.threw, ret |-> r.ret ]
      /\ UNCHANGED << busVars, regVars, dashVars, idb, sandboxes, audios, requests,
                      providers >>

\* options.tag || `lythra-${moduleId}-${Date.now()}`
NotificationTag(moduleId, given, now) ==
  IF Truthy(given) THEN given
  ELSE << "lythra-" >> \o moduleId \o << "-" >> \o ToDecimal(now)

\* notifications.showNotification of sandbox sb; constructs says whether
\* new Notification() returns (it throws otherwise)
ShowNotification(sb, title, givenTag, supported, outcome, constructs) ==
  LET sandbox == sandboxes[sb]
      asked   == IF notified.permission # "granted"
                 THEN RequestPermissionResult(sandbox, notified, supported,
                                              outcome)
                 ELSE [ threw |-> FALSE, ret |-> TRUE, nt |-> notified ]
      tag     == NotificationTag(sandbox.moduleId, givenTag, clock)
  IN  IF ~sandbox.hasNotificationPermission
      THEN /\ last' = [ op |-> "showNotification", sb |-> sb,
                        threw |-> TRUE, ret |-> Null ]
           /\ UNCHANGED << busVars, regVars, sbxVars, dashVars >>
      ELSE IF ~supported
      THEN /\ last' = [ op |-> "showNotification", sb |-> sb,
                        threw |-> FALSE, ret |-> Null ]
           /\ UNCHANGED << busVars, regVars, sbxVars, dashVars >>
      ELSE /\ notified' =
                IF asked.ret /\ constructs
                THEN [ asked.nt EXCEPT !.shown =
                         Append(@, [ title |-> title, tag |-> tag,
                                     moduleId |-> sandbox.moduleId ]) ]
                ELSE asked.nt
           /\ last' = [ op |-> "showNotification", sb |-> sb,
                        threw |-> FALSE,
                        ret |-> IF asked.ret /\ constructs
                                THEN tag ELSE Null ]
           /\ UNCHANGED << busVars, regVars, dashVars, idb, sandboxes, audios,
                           requests, providers >>

\* notifications.closeNotification of sandbox sb; controller says whether a
\* service worker controls the page
CloseNotification(sb, tag, controller) ==
  /\ notified' =
       IF controller
       THEN [ notified EXCEPT !.posted =
                Append(@, [ type |-> "close-notification", tag |-> tag,
                            moduleId |-> sandboxes[sb].moduleId ]) ]
       ELSE notified
  /\ last' = [ op |-> "closeNotification", sb |-> sb, threw |-> FALSE ]
  /\ UNCHANGED << busVars, regVars, dashVars, idb, sandboxes, audios, requests,
                  providers >>

(***************************************************************************)
(* Specification of the storage accessor: sandboxes of several instances   *)
(* on the one store                                                        *)
(***************************************************************************)
\* instance ids: a plain one and one of the form type:instance
StorageIds == { << "a" >>, << "a", ":", "b" >> }
\* keys the modules use
StorageKeys == { << "k" >>, << "b", ":", "k" >> }

\* the value a module stores: it names the instance and the key of the write
ValueOf(moduleId, key) == [ by |-> moduleId, key |-> key ]

StorageCreateStep ==
  /\ Len(sandboxes) < MaxStorageSandboxes
  /\ \E id \in StorageIds : CreateModuleSandbox(id, {})

StorageGetStep ==
  \E sb \in 1..Len(sandboxes), k \in StorageKeys, fails \in BOOLEAN :
    GetItem(sb, k, fails)

StorageSetStep ==
  \E sb \in 1..Len(sandboxes), k \in StorageKeys, fails \in BOOLEAN :
    SetItem(sb, k, ValueOf(sandboxes[sb].moduleId, k), fails)

StorageRemoveStep ==
  \E sb \in 1..Len(sandboxes), k \in StorageKeys, fails \in BOOLEAN :
    RemoveItem(sb, k, fails)

StorageKeysStep ==
  \E sb \in 1..Len(sandboxes), fails \in BOOLEAN : Keys(sb, fails)

StorageClearStep ==
  \E sb \in 1..Len(sandboxes), fails \in BOOLEAN : Clear(sb, fails)

NextStorage ==
  \/ StorageCreateStep
  \/ StorageGetStep
  \/ StorageSetStep
  \/ StorageRemoveStep
  \/ StorageKeysStep
  \/ StorageClearStep

SpecStorage == Init /\ [][NextStorage]_vars

(***************************************************************************)
(* Specification of the network and audio accessors                        *)
(***************************************************************************)
\* the permission lists definitions declare
PermissionLists ==
  { {}, { "network:read" }, { "audio:play" },
    { "network:write", "audio:play" } }

\* the methods callers pass ("" when they pass none)
Methods == { "", "HEAD", "post" }

\* the URLs callers pass, resolved
Urls ==
  { [ hostname |-> "api.example.com", pathname |-> << "/data" >> ],
    [ hostname |-> "localhost", pathname |-> << "/data" >> ],
    [ hostname |-> "api.example.com",
      pathname |-> << "/api/auth", "/login" >> ] }

SandboxCreateStep ==
  /\ Len(sandboxes) < MaxSandboxes
  /\ \E p \in PermissionLists : CreateModuleSandbox(<< "a" >>, p)

SandboxFetchStep ==
  /\ Len(requests) < MaxRequests
  /\ \E sb \in 1..Len(sandboxes), m \in Methods, u \in Urls,
        o \in { "resolve", "reject" } : Fetch(sb, m, u, NoString, o)

SandboxPlayStep ==
  /\ Len(audios) < MaxAudios
  /\ \E sb \in 1..Len(sandboxes), given \in { << >>, << "s" >> } :
       PlaySoundCall(sb, "x.mp3", given, FALSE)

SandboxPlaySettleStep ==
  \E a \in 1..Len(audios), ok \in BOOLEAN : PlaySoundSettle(a, ok)

SandboxStopAllStep ==
  \E sb \in 1..Len(sandboxes) : StopAllSounds(sb)

NextSandbox ==
  \/ SandboxCreateStep
  \/ SandboxFetchStep
  \/ SandboxPlayStep
  \/ SandboxPlaySettleStep
  \/ SandboxStopAllStep

SpecSandbox == Init /\ [][NextSandbox]_vars

(***************************************************************************)
(* Specification of the network accessor: absolute and relative URLs, and  *)
(* callers that pass headers of their own                                  *)
(***************************************************************************)
FetchPermissionLists ==
  { {}, { "network:read" }, { "network:read", "network:write" } }

\* the URLs callers pass: absolute ones, and one relative to the origin
FetchUrls ==
  Urls \cup
    { [ hostname |-> "internal.lythra.com", pathname |-> << "/data" >> ],
      [ hostname |-> "", pathname |-> << "/api/admin", "/users" >> ],
      [ hostname |-> "", pathname |-> << "/data" >> ] }

\* the X-Lythra-Module-ID header callers pass in options.headers
GivenHeaders == { NoString, << "x" >> }

\* the methods callers pass ("" when they pass none)
FetchMethods == Methods \cup { "get", "delete" }

FetchCreateStep ==
  /\ Len(sandboxes) < MaxSandboxes
  /\ \E id \in { << "a" >>, << "b" >> }, p \in FetchPermissionLists :
       CreateModuleSandbox(id, p)

FetchStep ==
  /\ Len(requests) < MaxRequests
  /\ \E sb \in 1..Len(sandboxes), m \in FetchMethods, u \in FetchUrls,
        h \in GivenHeaders, o \in { "resolve", "reject" } :
       Fetch(sb, m, u, h, o)

NextFetch ==
  \/ FetchCreateStep
  \/ FetchStep

SpecFetch == Init /\ [][NextFetch]_vars

(***************************************************************************)
(* Specification of the notifications accessor                             *)
(***************************************************************************)
NotificationPermissionLists == { {}, { "notifications:create" } }

NotifyCreateStep ==
  /\ Len(sandboxes) < MaxSandboxes
  /\ \E p \in NotificationPermissionLists :
       CreateModuleSandbox(<< "a" >>, p)

NotifyRequestStep ==
  /\ notified.prompts < MaxNotifications
  /\ \E sb \in 1..Len(sandboxes), supported \in BOOLEAN,
        o \in { "granted", "denied", "reject" } :
       RequestPermission(sb, supported, o)

NotifyShowStep ==
  /\ Len(notified.shown) < MaxNotifications
  /\ notified.prompts <= MaxNotifications
  /\ \E sb \in 1..Len(sandboxes), given \in { << >>, << "tag" >> },
        supported \in BOOLEAN, o \in { "granted", "denied", "reject" },
        constructs \in BOOLEAN :
       ShowNotification(sb, "title", given, supported, o, constructs)

NotifyCloseStep ==
  /\ Len(notified.posted) < MaxNotifications
  /\ \E sb \in 1..Len(sandboxes), controller \in BOOLEAN :
       CloseNotification(sb, << "tag" >>, controller)

NextNotifications ==
  \/ NotifyCreateStep
  \/ NotifyRequestStep
  \/ NotifyShowStep
  \/ NotifyCloseStep

SpecNotifications == Init /\ [][NextNotifications]_vars

(***************************************************************************)
(* Specification of the audio accessor of a mounted module: the module     *)
(* plays, stops, pauses and resumes sounds, the platform settles the       *)
(* play() promises and ends the sounds, and the provider unmounts          *)
(***************************************************************************)
\* the ids the module passes to playSound, stopSound, pauseSound, resumeSound
SoundIds == { << "s" >> }

\* the sandboxes of the providers that are mounted: a module calls its
\* accessors while it is mounted
MountedSandboxes ==
  { providers[p].sb : p \in { q \in 1..Len(providers) : providers[q].mounted } }

AudioRegisterStep ==
  /\ modules = << >>
  /\ RegisterModule(Definition(TypeT, "none"))

AudioMountStep ==
  /\ Len(providers) < MaxMounts
  /\ \E t \in RegTypes : MountProvider(<< "i" >>, t)

AudioUnmountStep == \E p \in 1..Len(providers) : UnmountProvider(p)

AudioPlayStep ==
  /\ Len(audios) < MaxSounds
  /\ \E sb \in MountedSandboxes, id \in SoundIds, loop \in BOOLEAN :
       PlaySoundCall(sb, "x.mp3", id, loop)

AudioSettleStep ==
  \E a \in 1..Len(audios), ok \in BOOLEAN : PlaySoundSettle(a, ok)

AudioEndedStep == \E a \in 1..Len(audios) : SoundEnded(a)

AudioStopStep ==
  \E sb \in MountedSandboxes, id \in SoundIds : StopSound(sb, id)

AudioPauseStep ==
  \E sb \in MountedSandboxes, id \in SoundIds : PauseSound(sb, id)

AudioResumeStep ==
  \E sb \in MountedSandboxes, id \in SoundIds, ok \in BOOLEAN :
    ResumeSound(sb, id, ok)

AudioStopAllStep == \E sb \in MountedSandboxes : StopAllSounds(sb)

NextAudio ==
  \/ AudioRegisterStep
  \/ AudioMountStep
  \/ AudioUnmountStep
  \/ AudioPlayStep
  \/ AudioSettleStep
  \/ AudioEndedStep
  \/ AudioStopStep
  \/ AudioPauseStep
  \/ AudioResumeStep
  \/ AudioStopAllStep

SpecAudio == Init /\ [][NextAudio]_vars

(***************************************************************************)
(* Claims about the event bus                                              *)
(***************************************************************************)
\* the on() calls for eventType whose unsubscribe closure was never called
ActiveHandles(eventType) ==
  { h \in 1..Len(handles) :
      handles[h].type = eventType /\ handles[h].calls = 0 }

RECURSIVE CallbacksInOrder(_, _)
\* the callbacks of the handles h..Len(handles) that are in hs, in call order
CallbacksInOrder(hs, h) ==
  IF h > Len(handles) THEN << >>
  ELSE IF h \in hs THEN << handles[h].cb >> \o CallbacksInOrder(hs, h + 1)
  ELSE CallbacksInOrder(hs, h + 1)

\* s1..sn are n callbacks: no other on() call for the type passed the
\* callback of a subscription in place
ActiveUnshared(eventType) ==
  \A h \in ActiveHandles(eventType) : \A g \in 1..Len(handles) :
     g # h /\ handles[g].type = eventType => handles[g].cb # handles[h].cb

\* C1: an emit() of a type whose subscriptions s1..sn were made with n
\* callbacks calls s1..sn in the order of their on() calls, once each, also
\* past a callback that throws, and no exception reaches emit()'s caller.
C1_DeliveryOrder ==
  (last.op = "emit" /\ ActiveUnshared(last.type))
    => /\ last.calls = CallbacksInOrder(ActiveHandles(last.type), 1)
       /\ ~last.escaped

\* C1: two subscribers were called and the first of them threw
C1_Witness ==
  /\ last.op = "emit"
  /\ ActiveUnshared(last.type)
  /\ Len(last.calls) = 2
  /\ last.calls[1] \in last.caught

\* C2: the log never holds more than maxLogSize events, and getEventLog()
\* is the most recent min(k, maxLogSize) of the k events emitted since the
\* last clearEventLog(), oldest first.
C2_LogBound ==
  /\ Len(eventLog) <= maxLogSize
  /\ GetEventLog = LastN(history, maxLogSize)

\* C2: more than maxLogSize events were emitted since the last clear
C2_Witness ==
  /\ last.op = "emit"
  /\ Len(history) > maxLogSize
  /\ Len(GetEventLog) = maxLogSize

\* the subscription the h-th on() call created is in place
Subscribed(h) ==
  /\ handles[h].calls = 0
  /\ handles[h].cb \in Range(SubscribersOf(events, handles[h].type))

\* C10: a second or later call of an unsubscribe closure does not throw and
\* removes no subscription created by a different on() call.
C10_UnsubscribeLocal ==
  [][ (last'.op = "unsubscribe" /\ last'.nth >= 2)
        => /\ ~last'.threw
           /\ \A g \in 1..Len(handles) :
                (g # last'.h /\ Subscribed(g)) => Subscribed(g)' ]_vars

\* C11: every on() call creates its own subscription: an emit() makes as many
\* callback invocations as there are on() calls for the type whose
\* unsubscribe closure was not called.
C11_IndependentSubscriptions ==
  last.op = "emit"
    => Len(last.calls) = Cardinality(ActiveHandles(last.type))

\* C12: the callback invocations of one emit() call are contiguous: no
\* invocation made by another emit() call, an emit() issued by a subscriber
\* being notified included, lies between two invocations of the same call.
C12_NoInterleaving ==
  last.op = "emit"
    => \A i, k \in 1..Len(last.trace) :
         (i < k /\ last.trace[i].emit = last.trace[k].emit)
           => \A j \in i..k : last.trace[j].emit = last.trace[i].emit

\* the permission the method class of a fetch needs: GET and HEAD (and no
\* method) read, anything else writes
RequiredPermission(method) ==
  IF method \in { "", "get", "GET", "head", "HEAD" }
  THEN "network:read" ELSE "network:write"

\* C3: a fetch whose method class needs a network permission the sandbox
\* was not built with throws and issues no request; playSound() on a
\* sandbox built without audio:play throws, creates no audio element and
\* leaves the handle map empty.
C3_PermissionGate ==
  [][ /\ ( /\ last'.op = "fetch"
           /\ RequiredPermission(last'.method)
                \notin sandboxes[last'.sb].permissions )
           => /\ last'.threw
              /\ last'.error = "permission"
              /\ requests' = requests
      /\ ( /\ last'.op = "playSound"
           /\ "audio:play" \notin sandboxes[last'.sb].permissions )
           => /\ last'.threw
              /\ audios' = audios
              /\ sandboxes'[last'.sb].audioElements = << >> ]_vars

\* C3: a write was refused to a sandbox that holds network:read only
C3_Witness ==
  /\ last.op = "fetch"
  /\ last.method = "post"
  /\ sandboxes[last.sb].permissions = { "network:read" }
  /\ last.threw
  /\ requests = << >>

\* C4: getModuleAtoms() returns the bundle it returned before for the pair,
\* without calling the creator, unless a removal was asked for the pair
\* since; the first call after a removal (and the very first call) calls
\* the creator of the type once and returns the new bundle, which is not
\* the one held before the removal.
C4_AtomsSingleton ==
  [][ (last'.op = "getModuleAtoms" /\ ~last'.threw)
        => LET pair == << last'.type, last'.id >>
           IN  IF MapHas(held, pair) /\ held[pair].live
               THEN /\ last'.ret = held[pair].bundle
                    /\ nextBundle' = nextBundle
               ELSE /\ nextBundle' = nextBundle + 1
                    /\ last'.ret = NewBundle(atomCreators[last'.type],
                                             last'.id, nextBundle)
                    /\ MapHas(held, pair)
                         => last'.ret # held[pair].bundle ]_vars

\* C4: a bundle was returned for a pair whose earlier bundle was removed
C4_Witness ==
  /\ last.op = "getModuleAtoms"
  /\ ~last.threw
  /\ last.ret.serial > 0
  /\ \A pair \in DOMAIN held : held[pair].bundle = last.ret
  /\ moduleAtoms[AtomsKey(last.type, last.id)] = last.ret

\* C5: after updateModuleConfig on a known id, the record stored under that
\* id is the one returned, and its id, type and createdAt are those of the
\* record before the call.
C5_IdentityPreserved ==
  (last.op = "updateModuleConfig" /\ last.before # Undefined)
    => /\ MapHas(instances, last.id)
       /\ instances[last.id] = last.ret
       /\ last.ret.id = last.before.id
       /\ last.ret.id = last.id
       /\ last.ret.type = last.before.type
       /\ last.ret.createdAt = last.before.createdAt

\* C5: the updates carried another id, type and createdAt
C5_Witness ==
  /\ last.op = "updateModuleConfig"
  /\ last.before # Undefined
  /\ { "id", "type", "createdAt" } \subseteq DOMAIN last.updates
  /\ last.updates.id # last.before.id
  /\ last.updates.type # last.before.type
  /\ last.updates.createdAt # last.before.createdAt

\* C6: when updateModuleConfig(id, {version: v2}) changes the version and
\* the migrationStrategy throws, no exception escapes and the stored
\* instance keeps its original version and its original settings.
C6_FailedMigrationUntouched ==
  ( /\ last.op = "updateModuleConfig"
    /\ last.strategy = "throw"
    /\ DOMAIN last.updates = { "version" } )
    => /\ ~last.threw
       /\ instances[last.id].version = last.before.version
       /\ instances[last.id].settings = last.before.settings

\* C7: getItem(key) of a sandbox never returns a value that the sandbox of
\* another instance id stored under the same key.
C7_SameKeyIsolation ==
  ( /\ last.op = "getItem"
    /\ last.ret # Null
    /\ last.ret # Undefined
    /\ last.ret.key = last.key )
    => last.ret.by = sandboxes[last.sb].moduleId

\* C7: a sandbox read a key as absent that another instance had stored
C7_Witness ==
  /\ last.op = "getItem"
  /\ ~last.failed
  /\ last.ret = Undefined
  /\ \E k \in DOMAIN idb :
       /\ idb[k].key = last.key
       /\ idb[k].by # sandboxes[last.sb].moduleId

\* C8: whatever the instance ids and the keys, getItem() of a sandbox never
\* returns a value that the sandbox of another instance id stored.
C8_NoCrossInstanceRead ==
  (last.op = "getItem" /\ last.ret # Null /\ last.ret # Undefined)
    => last.ret.by = sandboxes[last.sb].moduleId

\* C9: removeInstance(id) of a stored instance of type t returns true and
\* leaves getInstance(id) undefined and hasModuleAtoms(t, id) false; on an
\* unknown id it returns false and changes neither the instances nor the
\* atoms cache.
C9_RemoveInstance ==
  [][ last'.op = "removeInstance"
        => IF MapHas(instances, last'.id)
           THEN /\ last'.ret = TRUE
                /\ GetInstanceIn(instances', last'.id) = Undefined
                /\ ~HasAtomsIn(moduleAtoms', instances[last'.id].type,
                               last'.id)
           ELSE /\ last'.ret = FALSE
                /\ instances' = instances
                /\ moduleAtoms' = moduleAtoms ]_vars

\* C9: an instance that had atoms was removed
C9_Witness ==
  /\ last.op = "removeInstance"
  /\ last.ret = TRUE
  /\ last.hadAtoms

\* C13: on a sandbox built without notifications:create, requestPermission(),
\* showNotification() and closeNotification() each throw and leave the
\* platform alone: no prompt, no notification, no message to the worker.
C13_NotificationsGated ==
  [][ ( /\ last'.op \in { "requestPermission", "showNotification",
                          "closeNotification" }
        /\ "notifications:create" \notin sandboxes[last'.sb].permissions )
        => /\ last'.threw
           /\ notified' = notified ]_vars

\* C14: the sandboxed fetch issues the request exactly when the permission
\* of the method class is held, the resolved host is none of localhost,
\* 127.0.0.1 and internal.lythra.com, and the resolved path starts with none
\* of /api/auth, /api/admin and /api/internal; otherwise it throws and issues
\* nothing; an issued request carries X-Lythra-Module-ID equal to the
\* instance id of the sandbox.
C14_NetworkBlocklist ==
  [][ last'.op = "fetch"
        => LET sandbox == sandboxes[last'.sb]
               urlObj  == ResolveUrl(last'.url)
               allowed ==
                 /\ RequiredPermission(last'.method) \in sandbox.permissions
                 /\ urlObj.hostname \notin
                      { "localhost", "127.0.0.1", "internal.lythra.com" }
                 /\ \A path \in { << "/api/auth" >>, << "/api/admin" >>,
                                  << "/api/internal" >> } :
                      ~StartsWith(urlObj.pathname, path)
           IN  IF allowed
               THEN /\ Len(requests') = Len(requests) + 1
                    /\ requests'[Len(requests')].header = sandbox.moduleId
               ELSE /\ last'.threw
                    /\ requests' = requests ]_vars

\* the audio elements sandbox sb created
ElementsOf(sb) == { a \in 1..Len(audios) : audios[a].sb = sb }

\* C15: when stopAllSounds() returns, the handle map of the sandbox is empty
\* and no audio element the sandbox ever created is playing.
C15_StopAllReleases ==
  last.op = "stopAllSounds"
    => /\ sandboxes[last.sb].audioElements = << >>
       /\ \A a \in ElementsOf(last.sb) : ~audios[a].playing

\* the element is a live handle: it plays, or the map of its sandbox refers
\* to it
LiveHandle(a) ==
  \/ audios[a].playing
  \/ \E id \in DOMAIN sandboxes[audios[a].sb].audioElements :
       sandboxes[audios[a].sb].audioElements[id] = a

\* C16: a sandbox never has two live handles with one sound id, and after
\* playSound() the map entry of the id refers to the element just created.
C16_OneHandlePerId ==
  /\ \A a, b \in 1..Len(audios) :
       ( /\ a # b
         /\ audios[a].sb = audios[b].sb
         /\ audios[a].id = audios[b].id )
         => ~(LiveHandle(a) /\ LiveHandle(b))
  /\ (last.op = "playSound" /\ ~last.threw)
       => sandboxes[last.sb].audioElements[audios[Len(audios)].id]
            = Len(audios)

\* C17: once a ModuleProvider has unmounted, no audio element created through
\* its sandbox is playing, then or later.
C17_NoAudioAfterUnmount ==
  \A p \in 1..Len(providers) :
    ~providers[p].mounted
      => \A a \in ElementsOf(providers[p].sb) : ~audios[a].playing

\* C18: createModuleConfig without an id override returns an id that no
\* stored instance has: it replaces no stored instance, and the stored
\* instances keep distinct ids (each is stored under its own id).
C18_FreshId ==
  [][ ( /\ last'.op = "createModuleConfig"
        /\ ~last'.threw
        /\ "id" \notin DOMAIN last'.overrides )
        => /\ last'.ret.id \notin DOMAIN instances
           /\ \A i \in DOMAIN instances :
                GetInstanceIn(instances', i) = instances[i]
           /\ \A i \in DOMAIN instances' : instances'[i].id = i ]_vars

\* C19: createModuleConfig of an unregistered type throws and stores
\* nothing; of a registered type it stores and returns a config of that
\* type, with the version of the definition and with the size and settings
\* of the overrides or else the defaults of the definition, which
\* getInstance(id) then returns.
C19_CreateResult ==
  [][ last'.op = "createModuleConfig"
        => IF ~MapHas(modules, last'.type)
           THEN /\ last'.threw
                /\ instances' = instances
           ELSE LET config     == last'.ret
                    definition == modules[last'.type]
                    overrides  == last'.overrides
                IN  /\ ~last'.threw
                    /\ config.type = last'.type
                    /\ config.version = definition.version
                    /\ config.size =
                         IF "size" \in DOMAIN overrides
                         THEN overrides.size ELSE definition.defaultSize
                    /\ config.settings =
                         IF "settings" \in DOMAIN overrides
                         THEN overrides.settings
                         ELSE definition.defaultSettings
                    /\ GetInstanceIn(instances', config.id) = config ]_vars

\* C19: an instance was created from the defaults of its definition, by a
\* caller whose overrides carried another type and version
C19_Witness ==
  /\ last.op = "createModuleConfig"
  /\ ~last.threw
  /\ "version" \in DOMAIN last.overrides
  /\ last.overrides.version # last.ret.version
  /\ last.overrides.type # last.ret.type
  /\ last.ret.settings = modules[last.type].defaultSettings
  /\ instances[last.ret.id] = last.ret

\* C20: registerModule of a type that is registered throws, keeps the
\* registered definition and emits nothing; otherwise it registers the
\* definition and emits exactly one module:initialized event, whose payload
\* is the version and whose moduleType is the type of the definition.
C20_RegisterModule ==
  [][ last'.op = "registerModule"
        => LET definition == last'.definition
           IN  IF MapHas(modules, definition.type)
               THEN /\ last'.threw
                    /\ modules' = modules
                    /\ history' = history
                    /\ eventLog' = eventLog
               ELSE /\ ~last'.threw
                    /\ modules'[definition.type] = definition
                    /\ Len(history') = Len(history) + 1
                    /\ eventLog' = Append(eventLog, history'[Len(history')])
                    /\ history'[Len(history')].type = "module:initialized"
                    /\ history'[Len(history')].payload
                         = [ version |-> definition.version ]
                    /\ history'[Len(history')].moduleType
                         = definition.type ]_vars

\* C20: a second definition of a registered type, unlike the registered
\* one, was rejected
C20_Witness ==
  /\ last.op = "registerModule"
  /\ last.threw
  /\ modules[last.definition.type] # last.definition
  /\ modules[last.definition.type].version # last.definition.version

\* the settings { ...existing, ...updates } has
MergedSettings(existing, updates) ==
  IF "settings" \in DOMAIN updates THEN updates.settings
  ELSE existing.settings

\* C21: when updateModuleConfig changes the version and the
\* migrationStrategy returns, the stored instance has the new version and
\* the settings the strategy returned; when the definition has no
\* migrationStrategy, it has the requested version and the settings the
\* merge of the updates produced.
C21_Migration ==
  ( /\ last.op = "updateModuleConfig"
    /\ last.before # Undefined
    /\ VersionChanges(last.before, last.updates)
    /\ last.strategy # "throw" )
    => /\ instances[last.id].version = last.updates.version
       /\ instances[last.id].settings =
            IF last.strategy = "return"
            THEN MigrationStrategy(
                   MergedSettings(last.before, last.updates),
                   last.before.version, last.updates.version)
            ELSE MergedSettings(last.before, last.updates)

\* C21: a migrationStrategy returned and the stored settings are its result,
\* unlike the settings before the update
C21_Witness ==
  /\ last.op = "updateModuleConfig"
  /\ last.strategy = "return"
  /\ instances[last.id].version = VersionTwo
  /\ instances[last.id].settings # last.before.settings
  /\ instances[last.id].settings # MergedSettings(last.before, last.updates)

\* C22: updateModuleConfig on a known id emits exactly one
\* module:settings-changed event, with the instance id, the instance type,
\* and as payload the record that is stored and returned after the
\* migration; on an unknown id it returns undefined and emits nothing.
C22_AnnouncesFinalRecord ==
  [][ last'.op = "updateModuleConfig"
        => IF ~MapHas(instances, last'.id)
           THEN /\ last'.ret = Undefined
                /\ history' = history
                /\ eventLog' = eventLog
                /\ instances' = instances
           ELSE /\ Len(history') = Len(history) + 1
                /\ eventLog' = Append(eventLog, history'[Len(history')])
                /\ history'[Len(history')].type = "module:settings-changed"
                /\ history'[Len(history')].moduleId = last'.id
                /\ history'[Len(history')].moduleType
                     = instances[last'.id].type
                /\ history'[Len(history')].payload = instances'[last'.id]
                /\ history'[Len(history')].payload = last'.ret ]_vars

\* C22: an update whose migration changed the settings was announced with
\* the migrated record
C22_Witness ==
  /\ last.op = "updateModuleConfig"
  /\ last.strategy = "return"
  /\ history # << >>
  /\ history[Len(history)].payload = instances[last.id]
  /\ history[Len(history)].payload.settings
       # MergedSettings(last.before, last.updates)

(***************************************************************************)
(* Dashboard store (src/unnamed/part_004) and module utilities             *)
(* (src/src/lib/utils/moduleUtils.ts)                                      *)
(***************************************************************************)
\* nanoid(): the n-th call returns a string no earlier call returned
NanoId(n) == << "#" >> \o ToDecimal(n)

gridCols == 12
maxAttempts == 100

\* the overlap test of findAvailablePosition
Overlaps(position, newSize, module) ==
  ~ ( \/ position.x + newSize.width <= module.position.x
      \/ position.x >= module.position.x + module.size.width
      \/ position.y + newSize.height <= module.position.y
      \/ position.y >= module.position.y + module.size.height )

\* whether the cell (x, y) is free for a module of size newSize
FreeAt(existingModules, newSize, x, y) ==
  \A i \in 1..Len(existingModules) :
    ~Overlaps([ x |-> x, y |-> y ], newSize, existingModules[i])

RECURSIVE PlaceFrom(_, _, _, _)
\* findAvailablePosition's loop from row y with the given attempts left: the
\* first free column of the row, else the next row; when the attempts run
\* out, the last cell tried, one row down
PlaceFrom(existingModules, newSize, y, attempts) ==
  LET xs == 0..(gridCols - newSize.width)
      free == { x \in xs : FreeAt(existingModules, newSize, x, y) }
  IN  IF attempts = 0
      THEN [ x |-> IF xs = {} THEN 0 ELSE gridCols - newSize.width,
             y |-> y ]
      ELSE IF free # {}
      THEN [ x |-> CHOOSE x \in free : \A z \in free : x <= z, y |-> y ]
      ELSE PlaceFrom(existingModules, newSize, y + 1, attempts - 1)

\* findAvailablePosition
FindAvailablePosition(existingModules, newSize) ==
  PlaceFrom(existingModules, newSize, 0, maxAttempts)

\* createModuleConfig of moduleUtils.ts; id is what its nanoid() call returns
CreateModuleConfigUtil(moduleType, moduleDefinition, position, id, now) ==
  [ id |-> id, type |-> moduleType, version |-> moduleDefinition.version,
    position |-> position, size |-> moduleDefinition.defaultSize,
    settings |-> moduleDefinition.defaultSettings,
    createdAt |-> IsoString(now), updatedAt |-> IsoString(now) ]

\* state.dashboards[dashboardId]
DashboardOf(dashboardId) == MapGet(store.dashboards, dashboardId)

NotFoundError(dashboardId) ==
  << "Dashboard with ID " >> \o dashboardId \o << " not found" >>

\* createDashboard(name)
CreateDashboard(name) ==
  LET id == NanoId(nanoids + 1)
      newDashboard ==
        [ id |-> id, name |-> name, description |-> Undefined,
          modules |-> << >>, createdAt |-> IsoString(clock),
          updatedAt |-> IsoString(clock), isPublic |-> FALSE,
          tags |-> << >> ]
  IN  /\ nanoids' = nanoids + 1
      /\ store' = [ store EXCEPT
                      !.dashboards = MapSet(@, id, newDashboard),
                      !.currentDashboardId = id ]
      /\ last' = [ op |-> "createDashboard", ret |-> id ]
      /\ UNCHANGED << busVars, regVars, sbxVars, exports >>

\* duplicateDashboard(dashboardId): every copied module gets an id of its own
DuplicateDashboard(dashboardId) ==
  LET dashboard == DashboardOf(dashboardId)
  IN  IF dashboard = Undefined
      THEN /\ store' = [ store EXCEPT
                           !.lastError = NotFoundError(dashboardId) ]
           /\ last' = [ op |-> "duplicateDashboard", ret |-> Null ]
           /\ UNCHANGED << busVars, regVars, sbxVars, nanoids, exports >>
      ELSE LET id == NanoId(nanoids + 1)
               copies ==
                 [ i \in 1..Len(dashboard.modules) |->
                     [ dashboard.modules[i] EXCEPT
                         !.id = NanoId(nanoids + 1 + i),
                         !.createdAt = IsoString(clock),
                         !.updatedAt = IsoString(clock) ] ]
               duplicatedDashboard ==
                 [ id |-> id,
                   name |-> dashboard.name \o << " (Copy)" >>,
                   description |-> dashboard.description,
                   modules |-> copies,
                   createdAt |-> IsoString(clock),
                   updatedAt |-> IsoString(clock),
                   isPublic |-> FALSE, tags |-> dashboard.tags ]
           IN  /\ nanoids' = nanoids + 1 + Len(dashboard.modules)
               /\ store' = [ store EXCEPT
                    !.dashboards = MapSet(@, id, duplicatedDashboard) ]
               /\ last' = [ op |-> "duplicateDashboard", ret |-> id ]
               /\ UNCHANGED << busVars, regVars, sbxVars, exports >>

\* importDashboard(dashboard): the dashboard gets a new id; its modules are
\* taken as they are
ImportDashboard(dashboard) ==
  LET id == NanoId(nanoids + 1)
      importedDashboard ==
        [ dashboard EXCEPT !.id = id, !.createdAt = IsoString(clock),
                           !.updatedAt = IsoString(clock),
                           !.isPublic = FALSE ]
  IN  /\ nanoids' = nanoids + 1
      /\ store' = [ store EXCEPT
                      !.dashboards = MapSet(@, id, importedDashboard),
                      !.currentDashboardId = id ]
      /\ last' = [ op |-> "importDashboard", ret |-> id ]
      /\ UNCHANGED << busVars, regVars, sbxVars, exports >>

\* exportDashboard(dashboardId): the stored object, or null
ExportDashboard(dashboardId) ==
  LET dashboard == DashboardOf(dashboardId)
  IN  /\ exports' = IF dashboard = Undefined THEN exports
                    ELSE exports \cup { dashboard }
      /\ last' = [ op |-> "exportDashboard",
                   ret |-> IF dashboard = Undefined THEN Null
                           ELSE dashboard ]
      /\ UNCHANGED << busVars, regVars, sbxVars, store, nanoids >>

\* addModule(dashboardId, moduleType)
AddModule(dashboardId, moduleType) ==
  LET dashboard == DashboardOf(dashboardId)
      moduleDefinition == GetDefinition(moduleType)
  IN  IF dashboard = Undefined
      THEN /\ store' = [ store EXCEPT
                           !.lastError = NotFoundError(dashboardId) ]
           /\ last' = [ op |-> "addModule", ret |-> Null ]
           /\ UNCHANGED << busVars, regVars, sbxVars, nanoids, exports >>
      ELSE IF moduleDefinition = Undefined
      THEN /\ store' = [ store EXCEPT !.lastError =
                << "Module type " >> \o moduleType
                   \o << " not found in registry" >> ]
           /\ last' = [ op |-> "addModule", ret |-> Null ]
           /\ UNCHANGED << busVars, regVars, sbxVars, nanoids, exports >>
      ELSE LET position == FindAvailablePosition(dashboard.modules,
                             moduleDefinition.defaultSize)
               newModule == CreateModuleConfigUtil(moduleType,
                              moduleDefinition, position,
                              NanoId(nanoids + 1), clock)
           IN  /\ nanoids' = nanoids + 1
               /\ store' = [ store EXCEPT !.dashboards[dashboardId] =
                    [ @ EXCEPT !.modules = Append(@, newModule),
                               !.updatedAt = IsoString(clock) ] ]
               /\ last' = [ op |-> "addModule", ret |-> newModule.id ]
               /\ UNCHANGED << busVars, regVars, sbxVars, exports >>

\* modules.filter(module => module.id !== moduleId)
WithoutModule(mods, moduleId) ==
  LET F[i \in 0..Len(mods)] ==
        IF i = 0 THEN << >>
        ELSE IF mods[i].id # moduleId THEN Append(F[i - 1], mods[i])
        ELSE F[i - 1]
  IN  F[Len(mods)]

\* the store's removeModule(dashboardId, moduleId)
RemoveModule(dashboardId, moduleId) ==
  /\ store' = IF DashboardOf(dashboardId) = Undefined THEN store
              ELSE [ store EXCEPT !.dashboards[dashboardId] =
                       [ @ EXCEPT
                           !.modules = WithoutModule(@, moduleId),
                           !.updatedAt = IsoString(clock) ] ]
  /\ last' = [ op |-> "removeModule", dashboardId |-> dashboardId,
               moduleId |-> moduleId,
               removed |-> IF DashboardOf(dashboardId) = Undefined THEN << >>
                           ELSE SelectSeq(DashboardOf(dashboardId).modules,
                                  LAMBDA m : m.id = moduleId) ]
  /\ UNCHANGED << busVars, regVars, sbxVars, nanoids, exports >>

\* DashboardGrid.handleRemoveModule: nothing without the dashboard, else the
\* store's removeModule (the focus state is local to the component)
HandleRemoveModule(dashboardId, moduleId) ==
  IF DashboardOf(dashboardId) = Undefined
  THEN /\ last' = [ op |-> "handleRemoveModule" ]
       /\ UNCHANGED << busVars, regVars, sbxVars, dashVars >>
  ELSE RemoveModule(dashboardId, moduleId)

(***************************************************************************)
(* DashboardGrid and ModuleWrapper (src/src/components)                    *)
(***************************************************************************)
\* useModuleSandbox() under the given ModuleContext value (Null outside every
\* ModuleProvider, the default of createContext)
UseModuleSandbox(context) ==
  IF context = Null
  THEN [ threw |-> TRUE,
         error |-> "useModuleSandbox must be used within a ModuleProvider" ]
  ELSE [ threw |-> FALSE, error |-> "" ]

\* ModuleWrapper's render: it calls useModuleSandbox() first
ModuleWrapper(id, title, context) ==
  [ id |-> id, title |-> title,
    threw |-> UseModuleSandbox(context).threw ]

\* the element DashboardGrid makes for one module of the dashboard: the
\* fallback wrapper without a provider when the type has no definition,
\* else the wrapper inside a ModuleProvider of the module (definitions carry
\* no name here: the title of a known module is written as its type)
ModuleElement(module) ==
  IF GetDefinition(module.type) = Undefined
  THEN [ provider |-> FALSE,
         wrapper |-> ModuleWrapper(module.id, << "Unknown Module" >>, Null) ]
  ELSE [ provider |-> TRUE,
         wrapper |-> ModuleWrapper(module.id, module.type,
                                   [ moduleId |-> module.id ]) ]

\* the render of DashboardGrid for a dashboard of the store: the elements of
\* its modules in order; an exception of one child's render leaves the render
\* of the grid, which has no error boundary
RenderDashboardGrid(dashboardId) ==
  LET dashboard == DashboardOf(dashboardId)
  IN  IF dashboard = Undefined
      THEN [ threw |-> FALSE, found |-> FALSE, children |-> << >> ]
      ELSE LET children == [ i \in 1..Len(dashboard.modules) |->
                               ModuleElement(dashboard.modules[i]) ]
           IN  IF \E i \in 1..Len(children) : children[i].wrapper.threw
               THEN [ threw |-> TRUE, found |-> TRUE, children |-> << >> ]
               ELSE [ threw |-> FALSE, found |-> TRUE,
                      children |-> children ]

\* the sandbox a ModuleProvider builds in its render
ProviderSandbox(moduleId, moduleType) ==
  [ moduleId |-> moduleId,
    permissions |-> ProviderPermissions(moduleType),
    hasNetworkRead |-> "network:read" \in ProviderPermissions(moduleType),
    hasNetworkWrite |-> "network:write" \in ProviderPermissions(moduleType),
    hasAudioPermission |-> "audio:play" \in ProviderPermissions(moduleType),
    hasNotificationPermission |->
      "notifications:create" \in ProviderPermissions(moduleType),
    audioElements |-> << >> ]

RECURSIVE MountAll(_, _, _)
\* the providers of the modules from position i on mount in order: each
\* builds its sandbox and its effect emits module:initialized
MountAll(mods, i, st) ==
  IF i > Len(mods) THEN st
  ELSE IF GetDefinition(mods[i].type) = Undefined
  THEN MountAll(mods, i + 1, st)
  ELSE MountAll(mods, i + 1,
         [ sandboxes |-> Append(st.sandboxes,
                           ProviderSandbox(mods[i].id, mods[i].type)),
           providers |-> Append(st.providers,
                           [ moduleId |-> mods[i].id,
                             moduleType |-> mods[i].type,
                             sb |-> Len(st.sandboxes) + 1,
                             mounted |-> TRUE ]),
           log |-> LogEvent(st.log,
                     MakeEvent("module:initialized",
                       [ moduleId |-> mods[i].id,
                         moduleType |-> mods[i].type ],
                       mods[i].id, mods[i].type, clock)),
           history |-> Append(st.history,
                     MakeEvent("module:initialized",
                       [ moduleId |-> mods[i].id,
                         moduleType |-> mods[i].type ],
                       mods[i].id, mods[i].type, clock)) ])

\* DashboardGrid is mounted for dashboardId. A render that throws commits
\* nothing. Otherwise the providers mount and then the grid's own effect
\* emits dashboard:edit-mode-changed.
DashboardGrid(dashboardId, isEditing) ==
  LET r == RenderDashboardGrid(dashboardId)
      mods == IF r.found THEN DashboardOf(dashboardId).modules ELSE << >>
      st == MountAll(mods, 1,
              [ sandboxes |-> sandboxes, providers |-> providers,
                log |-> eventLog, history |-> history ])
      changed == MakeEvent("dashboard:edit-mode-changed",
                           [ isEditing |-> isEditing ],
                           NoString, NoString, clock)
  IN  IF r.threw
      THEN /\ last' = [ op |-> "render", dashboardId |-> dashboardId,
                        result |-> r ]
           /\ UNCHANGED << busVars, regVars, sbxVars, dashVars >>
      ELSE /\ sandboxes' = st.sandboxes
           /\ providers' = st.providers
           /\ eventLog' = LogEvent(st.log, changed)
           /\ history' = Append(st.history, changed)
           /\ last' = [ op |-> "render", dashboardId |-> dashboardId,
                        result |-> r ]
           /\ UNCHANGED << events, handles, emitCount, regVars, dashVars,
                           idb, audios, requests, notified >>

(***************************************************************************)
(* The dashboard: registrations, the store, the grid and module atoms      *)
(***************************************************************************)
\* a type no module of this build registers
TypeGone == << "g" >>

\* a Dashboard object from outside the store (a file another build wrote):
\* one module of a registered type and one of a type unknown here
ForeignDashboard ==
  [ id |-> << "f" >>, name |-> << "file" >>, description |-> Undefined,
    modules |->
      << [ id |-> << "x" >>, type |-> TypeT, version |-> VersionOne,
           position |-> [ x |-> 0, y |-> 0 ],
           size |-> [ width |-> 2, height |-> 2 ],
           settings |-> [ data |-> "default", shape |-> VersionOne ],
           createdAt |-> IsoString(0), updatedAt |-> IsoString(0) ],
         [ id |-> << "y" >>, type |-> TypeGone, version |-> VersionOne,
           position |-> [ x |-> 2, y |-> 0 ],
           size |-> [ width |-> 2, height |-> 2 ],
           settings |-> [ data |-> "default", shape |-> VersionOne ],
           createdAt |-> IsoString(0), updatedAt |-> IsoString(0) ] >>,
    createdAt |-> IsoString(0), updatedAt |-> IsoString(0),
    isPublic |-> TRUE, tags |-> << >> ]

\* every module config the store holds, as (dashboard id, position) pairs
StoredModules ==
  UNION { { << d, i >> : i \in 1..Len(store.dashboards[d].modules) } :
          d \in DOMAIN store.dashboards }

ModuleAt(p) == store.dashboards[p[1]].modules[p[2]]

\* the modules register when the application starts, before the store is used
Booted == MapHas(modules, TypeT) /\ MapHas(atomCreators, TypeT)

DashRegisterStep ==
  /\ eventLog = << >>
  /\ ~MapHas(modules, TypeT)
  /\ RegisterModule(Definition(TypeT, "none"))

DashAtomCreatorStep ==
  /\ MapHas(modules, TypeT)
  /\ ~MapHas(atomCreators, TypeT)
  /\ RegisterAtomCreator(TypeT, "createA")

\* whether the store may take one more dashboard
RoomForDashboard ==
  Booted /\ Cardinality(DOMAIN store.dashboards) < MaxDashboards

DashCreateStep ==
  /\ RoomForDashboard
  /\ nanoids < MaxNanoIds
  /\ CreateDashboard(<< "d" >>)

DashDuplicateStep ==
  \E d \in DOMAIN store.dashboards \cup { << "none" >> } :
    /\ RoomForDashboard
    /\ nanoids + 1 + (IF MapHas(store.dashboards, d)
                      THEN Len(store.dashboards[d].modules) ELSE 0)
         <= MaxNanoIds
    /\ DuplicateDashboard(d)

DashImportStep ==
  /\ RoomForDashboard
  /\ nanoids < MaxNanoIds
  /\ \E dashboard \in exports \cup { ForeignDashboard } :
       ImportDashboard(dashboard)

DashExportStep ==
  /\ Cardinality(exports) < MaxExports
  /\ \E d \in DOMAIN store.dashboards : ExportDashboard(d)

DashAddStep ==
  /\ nanoids < MaxNanoIds
  /\ \E d \in DOMAIN store.dashboards : AddModule(d, TypeT)

DashRemoveStep ==
  \E p \in StoredModules : HandleRemoveModule(p[1], ModuleAt(p).id)

NextDashboard ==
  \/ DashRegisterStep
  \/ DashAtomCreatorStep
  \/ DashCreateStep
  \/ DashDuplicateStep
  \/ DashImportStep
  \/ DashExportStep
  \/ DashAddStep
  \/ DashRemoveStep

SpecDashboard == Init /\ [][NextDashboard]_vars

(***************************************************************************)
(* The grid: one dashboard, rendered, with its modules' atoms              *)
(***************************************************************************)
GridCreateStep ==
  /\ Booted
  /\ store.dashboards = << >>
  /\ CreateDashboard(<< "d" >>)

GridImportStep ==
  /\ Booted
  /\ store.dashboards = << >>
  /\ ImportDashboard(ForeignDashboard)

GridAddStep ==
  /\ nanoids < MaxNanoIds
  /\ \E d \in DOMAIN store.dashboards : AddModule(d, TypeT)

\* number of times the grid's mount effect has run
GridMounts ==
  Cardinality({ i \in 1..Len(history) :
                  history[i].type = "dashboard:edit-mode-changed" })

GridRenderStep ==
  /\ GridMounts < MaxGridMounts
  /\ \E d \in DOMAIN store.dashboards : DashboardGrid(d, FALSE)

\* a mounted module component asks for its atoms, as the module template does
GridAtomsStep ==
  \E p \in 1..Len(providers) :
    /\ providers[p].mounted
    /\ GetModuleAtoms(providers[p].moduleType, providers[p].moduleId)

GridRemoveStep ==
  \E p \in StoredModules : HandleRemoveModule(p[1], ModuleAt(p).id)

NextGrid ==
  \/ DashRegisterStep
  \/ DashAtomCreatorStep
  \/ GridCreateStep
  \/ GridImportStep
  \/ GridAddStep
  \/ GridRenderStep
  \/ GridAtomsStep
  \/ GridRemoveStep

SpecGrid == Init /\ [][NextGrid]_vars

(***************************************************************************)
(* Claims about the dashboard                                              *)
(***************************************************************************)
\* C23: rendering a dashboard that has a module whose type has no registered
\* definition raises no error: every module of the dashboard gets its
\* element, in order, the ones of unknown type titled "Unknown Module" and
\* the others inside their provider.
C23_UnknownDegrades ==
  ( /\ last.op = "render"
    /\ last.result.found )
    => LET mods == DashboardOf(last.dashboardId).modules
           children == last.result.children
       IN  /\ ~last.result.threw
           /\ Len(children) = Len(mods)
           /\ \A i \in 1..Len(mods) :
                /\ children[i].wrapper.id = mods[i].id
                /\ ~children[i].wrapper.threw
                /\ IF GetDefinition(mods[i].type) = Undefined
                   THEN children[i].wrapper.title = << "Unknown Module" >>
                   ELSE children[i].provider

\* C24: once the store's removeModule has removed a module from a dashboard,
\* no atoms bundle is cached for that module.
C24_RemoveTearsDownAtoms ==
  last.op = "removeModule"
    => \A i \in 1..Len(last.removed) :
         ~HasModuleAtoms(last.removed[i].type, last.removed[i].id)

\* C30: no two module configs held in the store, in one dashboard or in two,
\* have the same id.
C30_UniqueModuleIds ==
  \A p, q \in StoredModules : p # q => ModuleAt(p).id # ModuleAt(q).id

\* the keys stored through setItem of a sandbox of moduleId and not removed
StoredBy(db, moduleId) ==
  { k \in StorageKeys :
      /\ MapHas(db, StorageKey(moduleId, k))
      /\ db[StorageKey(moduleId, k)] = ValueOf(moduleId, k) }

\* C25: after clear() of a sandbox completes without a storage failure, no
\* key stored through the sandbox's setItem is left (getItem finds nothing)
\* and keys() is empty.
C25_ClearEmpties ==
  [][ ( /\ last'.op = "clear"
        /\ ~last'.failed )
        => LET moduleId == sandboxes[last'.sb].moduleId
           IN  /\ \A k \in StoredBy(idb, moduleId) :
                    ~MapHas(idb', StorageKey(moduleId, k))
               /\ KeysIn(idb', moduleId) = << >> ]_vars

(***************************************************************************)
(* Instance-filtered subscriptions: EventBus.onForModule                   *)
(***************************************************************************)
\* a closure that leaves the moduleId test out
ForModuleCallbackUnfiltered(wrapper, event) ==
  << [ by |-> wrapper.wrapper, callback |-> wrapper.callback,
       event |-> event ] >>

\* the body of the closure onForModule passes to on(), run on an event: the
\* invocations of the client's callback it makes
ForModuleCallback(wrapper, event) ==
  IF event.moduleId = wrapper.moduleId
  THEN << [ by |-> wrapper.wrapper, callback |-> wrapper.callback,
            event |-> event ] >>
  ELSE << >>

\* EventBus.onForModule: on() with a closure made by this call, which keeps
\* the moduleId and the callback
OnForModule(eventType, moduleId, callback) ==
  LET wrapper == [ wrapper |-> Len(handles) + 1, moduleId |-> moduleId,
                   callback |-> callback ]
  IN  /\ Len(handles) < MaxSubs
      /\ events' = BusOn(events, eventType, wrapper)
      /\ handles' = Append(handles,
                      [ type |-> eventType, cb |-> wrapper, calls |-> 0 ])
      /\ last' = [ op |-> "onForModule", h |-> Len(handles) + 1 ]
      /\ UNCHANGED << eventLog, history, emitCount, regVars, sbxVars,
                      dashVars >>

RECURSIVE InvokedFrom(_, _, _)
\* the invocations of clients' callbacks made by the closures called, from
\* the i-th on
InvokedFrom(calls, i, event) ==
  IF i > Len(calls) THEN << >>
  ELSE ForModuleCallback(calls[i], event) \o InvokedFrom(calls, i + 1, event)

\* EventBus.emit on a bus whose subscribers are onForModule closures;
\* throwing are the clients' callbacks that throw when invoked
EmitForModule(eventType, payload, moduleId, throwing) ==
  LET event == MakeEvent(eventType, payload, moduleId, NoString, clock)
      cbs == SubscribersOf(events, eventType)
      throwers == { w \in Range(cbs) :
                      /\ w.wrapper \in throwing
                      /\ ForModuleCallback(w, event) # << >> }
      d == Deliver(cbs, throwers)
  IN  /\ Logged(event)
      /\ emitCount' = emitCount + 1
      /\ last' = [ op |-> "emit", type |-> eventType, payload |-> payload,
                   moduleId |-> moduleId, calls |-> d.calls,
                   invoked |-> InvokedFrom(d.calls, 1, event),
                   caught |-> d.caught, escaped |-> d.escaped ]
      /\ UNCHANGED << events, handles, regVars, sbxVars, dashVars >>

\* instance ids of the subscribers and emitters
InstanceIds == { << "inst-1" >>, << "inst-2" >> }
\* payloads emitted
Payloads == { [ tempo |-> 90 ] }

\* the subscriptions are for one type; the emits are of that and another
ForModuleOnStep ==
  \E id \in InstanceIds : OnForModule("module:state-changed", id, "cbA")

ForModuleUnsubscribeStep ==
  \E h \in 1..Len(handles) : handles[h].calls = 0 /\ Unsubscribe(h)

ForModuleEmitStep ==
  /\ emitCount < MaxBusEmits
  /\ \E t \in BusTypes, id \in InstanceIds \cup { NoString },
        payload \in Payloads :
       \E throwing \in { {}, { 1 } } :
         EmitForModule(t, payload, id, throwing)

NextForModule ==
  \/ ForModuleOnStep
  \/ ForModuleUnsubscribeStep
  \/ ForModuleEmitStep

SpecForModule == Init /\ [][NextForModule]_vars

\* the invocations the closure of the h-th subscription made in the last emit
InvocationsOf(h) ==
  SelectSeq(last.invoked, LAMBDA c : c.by = handles[h].cb.wrapper)

\* C26: in an emit, the callback of every onForModule(eventType, instanceId,
\* cb) subscription in place is invoked once, with the payload emitted, when
\* the event has that type and that moduleId, and not at all otherwise
\* (another moduleId, no moduleId, another type).
C26_FilteredDelivery ==
  last.op = "emit"
    => \A h \in 1..Len(handles) :
         handles[h].calls = 0
           => IF /\ handles[h].type = last.type
                 /\ handles[h].cb.moduleId = last.moduleId
              THEN /\ Len(InvocationsOf(h)) = 1
                   /\ InvocationsOf(h)[1].callback = handles[h].cb.callback
                   /\ InvocationsOf(h)[1].event.payload = last.payload
                   /\ InvocationsOf(h)[1].event.type = last.type
              ELSE InvocationsOf(h) = << >>

\* C26: an emit for inst-1 with a subscription for inst-1 and one for inst-2
\* of the type in place: the first was invoked, the second was not
C26_Witness ==
  /\ last.op = "emit"
  /\ last.moduleId = << "inst-1" >>
  /\ \E h, g \in 1..Len(handles) :
       /\ handles[h].calls = 0 /\ handles[g].calls = 0
       /\ handles[h].type = last.type /\ handles[g].type = last.type
       /\ handles[h].cb.moduleId = << "inst-1" >>
       /\ handles[g].cb.moduleId = << "inst-2" >>
       /\ Len(InvocationsOf(h)) = 1
       /\ InvocationsOf(g) = << >>

(***************************************************************************)
(* Specification of the atoms registry for types and ids that contain ':'  *)
(***************************************************************************)
\* module types: a plain one and one with a ':'
PairTypes == { << "t" >>, << "t", ":", "a" >> }
\* instance ids: a plain one and one with a ':'
PairIds == { << "b" >>, << "a", ":", "b" >> }
\* the atom creator each module type registers
CreatorOf(moduleType) ==
  IF moduleType = << "t" >> THEN "createA" ELSE "createB"

PairsRegisterStep ==
  \E t \in PairTypes :
    /\ ~MapHas(atomCreators, t)
    /\ RegisterAtomCreator(t, CreatorOf(t))

PairsGetStep ==
  /\ nextBundle < MaxBundles
  /\ \E t \in PairTypes, i \in PairIds : GetModuleAtoms(t, i)

PairsRemoveStep ==
  \E t \in PairTypes, i \in PairIds : RemoveModuleAtoms(t, i)

NextPairs ==
  \/ PairsRegisterStep
  \/ PairsGetStep
  \/ PairsRemoveStep

SpecPairs == Init /\ [][NextPairs]_vars

\* C27: getModuleAtoms for a (type, id) pair returns a bundle made by the
\* creator of that type called with that id, which is not the bundle held
\* for any other pair; and removeModuleAtoms for one pair leaves the bundle
\* cached for every other pair in place.
C27_OneBundlePerPair ==
  [][ /\ (last'.op = "getModuleAtoms" /\ ~last'.threw)
        => /\ MapHas(atomCreators, last'.type)
           /\ last'.ret.creator = MapGet(atomCreators, last'.type)
           /\ last'.ret.moduleId = last'.id
           /\ \A pair \in DOMAIN held :
                (pair # << last'.type, last'.id >> /\ held[pair].live)
                  => held[pair].bundle # last'.ret
      /\ last'.op = "removeModuleAtoms"
        => \A t \in PairTypes, i \in PairIds :
             ( /\ << t, i >> # << last'.type, last'.id >>
               /\ HasModuleAtoms(t, i)
               /\ MapHas(held, << t, i >>) /\ held[<< t, i >>].live )
               => HasAtomsIn(moduleAtoms', t, i) ]_vars

(***************************************************************************)
(* Specification of delivery while subscribers unsubscribe: a subscriber   *)
(* that calls unsubscribe closures while it is being notified              *)
(***************************************************************************)
\* callbacks clients pass to on(): cbB returns; cbStop, when it is notified,
\* calls the unsubscribe closure of every on() call that passed cbB
LiveCallbacks == { "cbB", "cbStop" }

\* the unsubscribe closures the callback calls when it is notified
Stops(hs, callback) ==
  IF callback = "cbStop"
  THEN { h \in 1..Len(hs) : hs[h].cb = "cbB" }
  ELSE {}

\* forEach on a copy of the set: an entry is visited whatever happened to it
VisitsSnapshot(ev, eventType, callback) == TRUE

\* Set.prototype.forEach on the set itself: an entry deleted before its turn
\* is not visited
Visits(ev, eventType, callback) ==
  callback \in Range(SubscribersOf(ev, eventType))

RECURSIVE UnsubscribeAll(_, _, _)
\* the unsubscribe closures of the handles in hs, called in handle order
UnsubscribeAll(st, hs, h) ==
  IF h > Len(st.handles) THEN st
  ELSE IF h \notin hs THEN UnsubscribeAll(st, hs, h + 1)
  ELSE UnsubscribeAll(
         [ st EXCEPT
             !.events = BusUnsubscribe(@, st.handles[h].type,
                                       st.handles[h].cb),
             !.handles[h].calls = Saturate(@ + 1) ],
         hs, h + 1)

RECURSIVE NotifyLive(_, _, _, _)
\* callbacks.forEach of emit() over cbs, the entries the set had when the
\* loop began, from the i-th on. st is the map, the unsubscribe closures with
\* their call counts, and the invocations made: each with the on() calls for
\* the type and the callback whose closure was not yet called at that moment
NotifyLive(eventType, cbs, i, st) ==
  IF i > Len(cbs) THEN st
  ELSE IF ~Visits(st.events, eventType, cbs[i])
  THEN NotifyLive(eventType, cbs, i + 1, st)
  ELSE LET called ==
             [ st EXCEPT !.trace = Append(@,
                 [ cb |-> cbs[i],
                   active |-> { h \in 1..Len(st.handles) :
                                  /\ st.handles[h].type = eventType
                                  /\ st.handles[h].cb = cbs[i]
                                  /\ st.handles[h].calls = 0 } ]) ]
       IN  NotifyLive(eventType, cbs, i + 1,
             UnsubscribeAll(called, Stops(st.handles, cbs[i]), 1))

\* a client calls emit(eventType) on a bus with such subscribers
EmitLive(eventType) ==
  LET event == MakeEvent(eventType, Undefined, NoString, NoString, clock)
      st == NotifyLive(eventType, SubscribersOf(events, eventType), 1,
              [ events |-> events, handles |-> handles, trace |-> << >> ])
  IN  /\ Logged(event)
      /\ emitCount' = emitCount + 1
      /\ events' = st.events
      /\ handles' = st.handles
      /\ last' = [ op |-> "emit", type |-> eventType, trace |-> st.trace,
                   before |-> SubscribersOf(events, eventType) ]
      /\ UNCHANGED << regVars, sbxVars, dashVars >>

LiveOnStep == \E t \in BusTypes, cb \in LiveCallbacks : On(t, cb)

LiveUnsubscribeStep == \E h \in 1..Len(handles) : Unsubscribe(h)

LiveEmitStep ==
  /\ emitCount < MaxBusEmits
  /\ \E t \in BusTypes : EmitLive(t)

NextLive ==
  \/ LiveOnStep
  \/ LiveUnsubscribeStep
  \/ LiveEmitStep

SpecLive == Init /\ [][NextLive]_vars

\* C28: a callback is invoked in an emit only while an on() call for the type
\* and the callback exists whose unsubscribe closure has not been called:
\* once the closure has returned, the callback is not invoked for that
\* subscription, also when an earlier subscriber called the closure during
\* the delivery.
C28_UnsubscribeImmediate ==
  last.op = "emit"
    => \A i \in 1..Len(last.trace) : last.trace[i].active # {}

\* C28: cbStop was notified before cbB and called cbB's unsubscribe closure;
\* cbB, subscribed when the emit began, was not invoked
C28_Witness ==
  /\ last.op = "emit"
  /\ last.before = << "cbStop", "cbB" >>
  /\ Len(last.trace) = 1
  /\ last.trace[1].cb = "cbStop"

(***************************************************************************)
(* Specification of the capabilities of a sandbox whose exposed            *)
(* permissions array is changed after construction                         *)
(***************************************************************************)
\* sandbox.permissions.push(token): the array createModuleSandbox was given
\* is the one the sandbox exposes
PushPermission(sb, token) ==
  /\ sandboxes' = [ sandboxes EXCEPT ![sb].permissions = @ \cup { token } ]
  /\ last' = [ op |-> "push", sb |-> sb, token |-> token ]
  /\ UNCHANGED << busVars, regVars, dashVars, idb, audios, requests,
                  notified, providers >>

PermissionTokens ==
  { "network:read", "network:write", "audio:play", "notifications:create" }

\* the instances and the permission list each is constructed with
CapabilityIds == { << "none" >>, << "reader" >>, << "player" >> }
GrantedTo(moduleId) ==
  CASE moduleId = << "reader" >> -> { "network:read" }
    [] moduleId = << "player" >> -> { "audio:play", "notifications:create" }
    [] OTHER -> {}

CapCreateStep ==
  /\ Len(sandboxes) < MaxSandboxes
  /\ \E id \in CapabilityIds : CreateModuleSandbox(id, GrantedTo(id))

CapPushStep ==
  \E sb \in 1..Len(sandboxes), token \in PermissionTokens :
    /\ token \notin sandboxes[sb].permissions
    /\ PushPermission(sb, token)

CapFetchStep ==
  /\ Len(requests) < MaxRequests
  /\ \E sb \in 1..Len(sandboxes), m \in { "", "post" } :
       Fetch(sb, m, [ hostname |-> "api.example.com",
                      pathname |-> << "/v1" >> ], NoString, "resolve")

CapPlayStep ==
  /\ Len(audios) < MaxAudios
  /\ \E sb \in 1..Len(sandboxes) :
       PlaySoundCall(sb, "x.mp3", << "s" >>, FALSE)

CapRequestStep ==
  /\ notified.prompts < MaxNotifications
  /\ \E sb \in 1..Len(sandboxes) : RequestPermission(sb, TRUE, "granted")

CapShowStep ==
  /\ Len(notified.shown) < MaxNotifications
  /\ notified.prompts < MaxNotifications
  /\ \E sb \in 1..Len(sandboxes) :
       ShowNotification(sb, "title", << "tag" >>, TRUE, "granted", TRUE)

NextCapabilities ==
  \/ CapCreateStep
  \/ CapPushStep
  \/ CapFetchStep
  \/ CapPlayStep
  \/ CapRequestStep
  \/ CapShowStep

SpecCapabilities == Init /\ [][NextCapabilities]_vars

\* the permission a call of the operation needs
NeededFor(call) ==
  CASE call.op = "fetch" -> RequiredPermission(call.method)
    [] call.op = "playSound" -> "audio:play"
    [] OTHER -> "notifications:create"

\* C29: a fetch, playSound, requestPermission or showNotification call whose
\* permission was not in the list the sandbox was constructed with throws
\* and reaches nothing of the platform, whatever tokens were added to the
\* sandbox's permissions array since.
C29_FixedAtConstruction ==
  [][ ( /\ last'.op \in { "fetch", "playSound", "requestPermission",
                          "showNotification" }
        /\ NeededFor(last') \notin
             GrantedTo(sandboxes[last'.sb].moduleId) )
        => /\ last'.threw
           /\ requests' = requests
           /\ audios' = audios
           /\ notified' = notified ]_vars

\* C29: a post was refused on a sandbox constructed with network:read only,
\* after network:write was added to its permissions array
C29_Witness ==
  /\ last.op = "fetch"
  /\ last.method = "post"
  /\ last.threw
  /\ last.error = "permission"
  /\ GrantedTo(sandboxes[last.sb].moduleId) = { "network:read" }
  /\ "network:write" \in sandboxes[last.sb].permissions

====
